---- MODULE Spec2Model ----
(***************************************************************************)
(* Flamenco Worker: the worker core (flamenco_worker/worker.py), the       *)
(* may-I-run poller (flamenco_worker/may_i_run.py) and the persistent      *)
(* task update queue, as state machines over the asyncio event loop.       *)
(*                                                                         *)
(* One action is one uninterrupted run of a coroutine between two          *)
(* suspension points (or one signal handler).  A Task that was cancelled   *)
(* is not done() until its next step has run; that window is modelled.     *)
(***************************************************************************)
EXTENDS Integers, Sequences, FiniteSets, TLC

\* ---- bounds of the model ------------------------------------------------
MaxIter == 2     \* single_iteration futures created in one behaviour
MaxTasks == 2    \* tasks handed out by the Manager on POST /task
MaxSleep == 2    \* sleeping()/sleeping_for_error() tasks created
MaxQueue == 3    \* enqueue calls in one behaviour of the update queue
MaxFail == 2     \* failed POSTs and restarts of the update queue
MaxCalls == 4    \* calls and timer firings in one behaviour of the push layer
MaxLogs == 3     \* log lines registered in one behaviour of the push layer
MaxPosts == 4    \* POSTs of startup() to /sign-on and /register-worker
MaxStep == 30    \* the longest step of the clock, in seconds
MaxElapsed == 65 \* the time the clock runs, in seconds
MaxCommands == 2 \* commands of one task
MaxRuns == 3     \* tasks handed to the runner in one behaviour
MaxDuration == 2 \* the longest interval a command records, in seconds
MaxPids == 3     \* subprocesses spawned in one behaviour
MaxEnv == 2      \* events from outside in one behaviour: signals, status
                 \* directives of the Manager, may-I-run polls, log/activity
                 \* events of a running command, failed checks

\* ---- configuration ---------------------------------------------------------
push_log_max_entries == 2   \* config push_log_max_entries, scaled down
QUEUE_SIZE_THRESHOLD == 10
REGISTER_AT_MANAGER_FAILED_RETRY_DELAY == 30
FETCH_TASK_FAILED_RETRY_DELAY == 10
FETCH_TASK_EMPTY_RETRY_DELAY == 5
FETCH_TASK_DONE_SCHEDULE_NEW_DELAY == 3
UNCAUGHT_EXCEPTION_RETRY_DELAY == 60
\* The least time between two POSTs of output_produced().
OUTPUT_PRODUCED_INTERVAL == 30

VARIABLES
    state,        \* FlamencoWorker.state
    iters,        \* the single_iteration Tasks ever created, by number
    sif,          \* single_iteration_fut: number of the latest one, 0 = None
    aef,          \* asyncio_execution_fut: iteration that created it, 0 = None
    aggr,         \* trunner.aggr_timing_info: the task it has timing of, 0 = empty
    task_id,      \* FlamencoWorker.task_id, 0 = None
    cts,          \* current_task_status, "none" = None, "" after cleanup
    act,          \* last_task_activity.activity
    silent,       \* task_is_silently_aborting
    acceptable,   \* failures_are_acceptable
    logq,         \* _queued_log_entries
    pushAct,      \* _push_act_to_manager future
    pushLog,      \* _push_log_to_manager future
    sleepers,     \* the sleeping()/sleeping_for_error() Tasks ever created
    sfut,         \* sleeping_fut: number of the latest one, 0 = None
    mir,          \* MayIRun.work() and the stop_current_task() it awaits
    shut,         \* position of do_clean_shutdown()/shutdown()
    loopStopped,  \* loop.stop() was called by go_to_state_shutdown
    enq,          \* output: the calls tuqueue.queue(url, payload) of the last step
    run_single_task, \* FlamencoWorker.run_single_task (command line -1)
    stopped,      \* history: tasks for which stop_current_task began to stop
    posts,        \* output: the POSTs to Recorded URLs of the last step
    cnt,          \* counters that bound the behaviour
    inp,          \* what the last step of a fetch iteration got from outside
    tuq,          \* the persistent update queue and its consumer
    psh,          \* the push layer on its own: history of its calls
    reg,          \* startup(): the identity, manager.auth and the requests made
    outp,         \* output_produced(): the clock, the throttle and its POSTs
    rn,           \* TaskRunner: the task it executes and the timing it keeps
    pf            \* the subprocess PID file and the commands that share it

vars == <<state, iters, sif, aef, aggr, task_id, cts, act, silent, acceptable, logq,
          pushAct, pushLog, sleepers, sfut, mir, shut, loopStopped, enq,
          stopped, posts, cnt, inp, run_single_task, tuq, psh, reg, outp, rn, pf>>

wvars == <<state, iters, sif, aef, aggr, task_id, cts, act, silent, acceptable, logq,
           pushAct, pushLog, sleepers, sfut, mir, shut, loopStopped, enq,
           stopped, posts, cnt, inp, run_single_task>>

\* The variables of the parts that are modelled on their own.
aux == <<psh, reg, outp, rn, pf>>

\* No fetch iteration took a step.
NoInput == [op |-> "-", i |-> 0, qs |-> 0, ok |-> TRUE, resp |-> "", sr |-> ""]

\* The worker as one record, so that the methods compose as functions.  Every
\* step starts with empty outputs.  raised: the method ended with an exception.
W == [state |-> state, iters |-> iters, sif |-> sif, aef |-> aef,
      aggr |-> aggr, raised |-> FALSE,
      task_id |-> task_id, cts |-> cts, act |-> act, silent |-> silent,
      acceptable |-> acceptable, logq |-> logq, pushAct |-> pushAct,
      pushLog |-> pushLog, sleepers |-> sleepers, sfut |-> sfut, mir |-> mir,
      shut |-> shut, loopStopped |-> loopStopped, enq |-> <<>>,
      stopped |-> stopped, posts |-> <<>>, cnt |-> cnt, inp |-> NoInput]

\* The bounds on created tasks hold in the state r.
Fits(r) == r.cnt.iter <= MaxIter /\ r.cnt.sleep <= MaxSleep

Assign(r) ==
    /\ Fits(r)
    /\ state' = r.state /\ iters' = r.iters /\ sif' = r.sif /\ aef' = r.aef
    /\ aggr' = r.aggr
    /\ task_id' = r.task_id /\ cts' = r.cts /\ act' = r.act
    /\ silent' = r.silent /\ acceptable' = r.acceptable /\ logq' = r.logq
    /\ pushAct' = r.pushAct /\ pushLog' = r.pushLog
    /\ sleepers' = r.sleepers /\ sfut' = r.sfut /\ mir' = r.mir
    /\ shut' = r.shut /\ loopStopped' = r.loopStopped /\ enq' = r.enq
    /\ stopped' = r.stopped /\ posts' = r.posts /\ cnt' = r.cnt
    /\ inp' = r.inp

Apply(r) == Assign(r) /\ UNCHANGED <<run_single_task, tuq, aux>>

\* ---- asyncio futures ------------------------------------------------------
\* A delayed-push future: None, sleeping, cancel() called but not yet done,
\* or done.
FutDone(f) == f = "done"

\* asyncio_execution_fut.done() of the execution started by iteration i.
ExecDone(its, i) == its[i].ex \in {"ok", "fail", "exc", "cancelled"}

\* Task.done(): "raised" is done with an exception whose done-callback has not
\* run yet.
IterDone(its, i) == its[i].pc \in {"done", "raised"}

\* Task.cancel() on single_iteration i: the cancellation goes to the future
\* the task waits for; a waiter that is already done leaves _must_cancel set.
CancelIter(its, i) ==
    IF IterDone(its, i) THEN its
    ELSE IF its[i].pc = "exec" /\ its[i].ex = "running"
         THEN [its EXCEPT ![i].ex = "cancelling"]
    ELSE IF its[i].pc = "exec" /\ its[i].ex = "cancelling" THEN its
    ELSE [its EXCEPT ![i].mc = TRUE]

\* asyncio_execution_fut.cancel()
CancelExec(its, i) ==
    IF its[i].ex = "running" THEN [its EXCEPT ![i].ex = "cancelling"] ELSE its

CancelFut(f) == IF f = "pending" THEN "cancelling" ELSE f

\* ---- FlamencoWorker ---------------------------------------------------------
active_task_id(w) ==
    IF w.aef = 0 \/ ExecDone(w.iters, w.aef) THEN 0 ELSE w.task_id

\* manager.post(url): the requests that are recorded in posts.
Recorded == {"return", "sign-off", "task", "ack-status-change"}

Post(w, url) ==
    IF url.u \in Recorded THEN [w EXCEPT !.posts = Append(@, url)] ELSE w

schedule_fetch_task(w, delay) ==
    IF w.shut # "off" THEN w
    ELSE LET n == w.cnt.iter + 1 IN
         [w EXCEPT !.iters[n] = [pc |-> "new", mc |-> FALSE, ex |-> "none",
                                 task |-> 0, delay |-> delay],
                   !.sif = n, !.cnt.iter = n]

stop_fetching_tasks(w) ==
    IF w.sif = 0 \/ IterDone(w.iters, w.sif) THEN w
    ELSE [w EXCEPT !.iters = CancelIter(@, w.sif)]

_cleanup_state_for_new_task(w) ==
    [w EXCEPT !.act = "", !.silent = FALSE, !.cts = ""]

\* Variant: the pushed log lines stay in the buffer.
push_to_manager_keep(w) ==
    LET base == IF w.silent
                THEN [task |-> w.task_id, status |-> "", hasact |-> FALSE,
                      act |-> "", log |-> <<>>]
                ELSE [task |-> w.task_id,
                      status |-> IF w.cts = "none" THEN "" ELSE w.cts,
                      hasact |-> TRUE, act |-> w.act, log |-> <<>>]
        w1 == [w EXCEPT !.pushAct = CancelFut(@)]
        haslog == w1.logq # <<>>
        payload == [base EXCEPT !.log = w1.logq]
        w2 == IF haslog THEN [w1 EXCEPT !.pushLog = CancelFut(@)] ELSE w1
    IN IF ~payload.hasact /\ ~haslog THEN w2
       ELSE [w2 EXCEPT !.enq = Append(@, payload)]

\* push_to_manager() after its optional delay.
push_to_manager(w) ==
    LET base == IF w.silent
                THEN [task |-> w.task_id, status |-> "", hasact |-> FALSE,
                      act |-> "", log |-> <<>>]
                ELSE [task |-> w.task_id,
                      status |-> IF w.cts = "none" THEN "" ELSE w.cts,
                      hasact |-> TRUE, act |-> w.act, log |-> <<>>]
        w1 == [w EXCEPT !.pushAct = CancelFut(@)]
        haslog == w1.logq # <<>>
        payload == [base EXCEPT !.log = w1.logq]
        w2 == IF haslog
              THEN [w1 EXCEPT !.logq = <<>>, !.pushLog = CancelFut(@)]
              ELSE w1
    IN IF ~payload.hasact /\ ~haslog THEN w2
       ELSE [w2 EXCEPT !.enq = Append(@, payload)]

\* Variant: a changed status is enqueued on its own, past the log buffer.
register_task_update_direct(w, status, a, due) ==
    LET w1 == IF a = "keep" THEN w ELSE [w EXCEPT !.act = a]
        changed == status # "none" /\ w1.cts # status
        w2 == IF status = "none" THEN w1 ELSE [w1 EXCEPT !.cts = status]
    IN IF w1.aggr # 0 THEN [w1 EXCEPT !.raised = TRUE]
       ELSE IF changed
       THEN [w2 EXCEPT !.enq = Append(@, [task |-> w.task_id,
                                          status |-> status, hasact |-> TRUE,
                                          act |-> w1.act, log |-> <<>>]),
                       !.pushAct = CancelFut(@)]
       ELSE IF due THEN push_to_manager(w2)
       ELSE IF w2.pushAct = "none" \/ FutDone(w2.pushAct)
            THEN [w2 EXCEPT !.pushAct = "pending"]
       ELSE w2

\* Variant: a changed status waits for the delayed push like an activity.
register_task_update_lazy(w, status, a, due) ==
    LET w1 == IF a = "keep" THEN w ELSE [w EXCEPT !.act = a]
        w2 == IF status = "none" THEN w1 ELSE [w1 EXCEPT !.cts = status]
    IN IF w1.aggr # 0 THEN [w1 EXCEPT !.raised = TRUE]
       ELSE IF due THEN push_to_manager(w2)
       ELSE IF w2.pushAct = "none" \/ FutDone(w2.pushAct)
            THEN [w2 EXCEPT !.pushAct = "pending"]
       ELSE w2

\* Variant: every call pushes at once.
register_task_update_eager(w, status, a, due) ==
    LET w1 == IF a = "keep" THEN w ELSE [w EXCEPT !.act = a]
        changed == status # "none" /\ w1.cts # status
        w2 == IF status = "none" THEN w1 ELSE [w1 EXCEPT !.cts = status]
    IN IF w1.aggr # 0 THEN [w1 EXCEPT !.raised = TRUE]
       ELSE IF changed THEN push_to_manager(w2)
       ELSE push_to_manager(w2)

\* register_task_update(task_status=status, activity=a); status "none" and
\* activity "keep" stand for an absent argument.  due: more than
\* push_act_max_interval passed since last_activity_push.  The activity is
\* stored first; then, when aggr_timing_info is not empty, to_json_compat()
\* is called on it: it is an OrderedDict, which has no such method, and the
\* AttributeError ends the call.
register_task_update(w, status, a, due) ==
    LET w1 == IF a = "keep" THEN w ELSE [w EXCEPT !.act = a]
        changed == status # "none" /\ w1.cts # status
        w2 == IF status = "none" THEN w1 ELSE [w1 EXCEPT !.cts = status]
    IN IF w1.aggr # 0 THEN [w1 EXCEPT !.raised = TRUE]
       ELSE IF changed THEN push_to_manager(w2)
       ELSE IF due THEN push_to_manager(w2)
       ELSE IF w2.pushAct = "none" \/ FutDone(w2.pushAct)
            THEN [w2 EXCEPT !.pushAct = "pending"]
       ELSE w2

\* Variant: pushes as soon as the buffer holds push_log_max_entries lines.
register_log_early(w, line, due) ==
    LET w1 == [w EXCEPT !.logq = Append(@, [t |-> w.task_id, k |-> line])]
    IN IF Len(w1.logq) >= push_log_max_entries THEN push_to_manager(w1)
       ELSE IF due THEN push_to_manager(w1)
       ELSE IF w1.pushLog = "none" \/ FutDone(w1.pushLog)
            THEN [w1 EXCEPT !.pushLog = "pending"]
       ELSE w1

\* register_log(line).  due: more than push_log_max_interval passed since
\* last_log_push.
register_log(w, line, due) ==
    LET w1 == [w EXCEPT !.logq = Append(@, [t |-> w.task_id, k |-> line])]
    IN IF Len(w1.logq) > push_log_max_entries THEN push_to_manager(w1)
       ELSE IF due THEN push_to_manager(w1)
       ELSE IF w1.pushLog = "none" \/ FutDone(w1.pushLog)
            THEN [w1 EXCEPT !.pushLog = "pending"]
       ELSE w1

ack_status_change(w, new_status) ==
    Post(w, [u |-> "ack-status-change", t |-> 0, s |-> new_status])

NewSleeper(w, kind) ==
    LET n == w.cnt.sleep + 1 IN
    [w EXCEPT !.sleepers[n] = [kind |-> kind, st |-> "pending"],
              !.sfut = n, !.cnt.sleep = n]

stop_sleeping(w) ==
    IF w.sfut = 0 \/ w.sleepers[w.sfut].st = "done" THEN w
    ELSE [w EXCEPT !.sleepers[w.sfut].st = "cancelling"]

\* Variant: goes to sleep without telling the Manager.
go_to_state_asleep_quiet(w) ==
    NewSleeper(stop_fetching_tasks([w EXCEPT !.state = "asleep"]), "poll")

go_to_state_asleep(w) ==
    LET w1 == stop_fetching_tasks([w EXCEPT !.state = "asleep"])
    IN ack_status_change(NewSleeper(w1, "poll"), "asleep")

go_to_state_awake(w) ==
    LET w1 == stop_sleeping([w EXCEPT !.state = "awake"])
    IN ack_status_change(
           schedule_fetch_task(w1, FETCH_TASK_DONE_SCHEDULE_NEW_DELAY), "awake")

go_to_state_shutdown(w) ==
    [w EXCEPT !.state = "shutting-down", !.loopStopped = TRUE]

\* Variant: retries the fetch without waiting for the error timer.
go_to_state_error_retrying(w) ==
    LET w1 == ack_status_change([w EXCEPT !.state = "error"], "error")
    IN schedule_fetch_task(NewSleeper(w1, "error"),
                           FETCH_TASK_FAILED_RETRY_DELAY)

go_to_state_error(w) ==
    LET w1 == ack_status_change([w EXCEPT !.state = "error"], "error")
    IN NewSleeper(w1, "error")

StatusRequests == {"asleep", "awake", "shutdown", "error", "bogus"}

change_status(w, new_status) ==
    CASE new_status = "asleep" -> go_to_state_asleep(w)
      [] new_status = "awake" -> go_to_state_awake(w)
      [] new_status = "shutdown" -> go_to_state_shutdown(w)
      [] new_status = "error" -> go_to_state_error(w)
      [] OTHER -> go_to_state_asleep(w)

\* Variant: returns the task without pushing what is buffered first.
requeue_begin_unpushed(w) == w

\* requeue_task_on_manager() up to its await of flush_and_report().
requeue_begin(w) == push_to_manager(w)

\* stop_current_task() from the return of abort_current_task() up to the
\* await of flush_and_report().
stop_after_abort(w, due) ==
    LET w1 == [w EXCEPT !.iters = CancelExec(@, w.aef)]
    IN requeue_begin(register_log(w1, "stopped", due))

\* Variant: a cancellation is reported although the task is silently aborting.
TerminalStatus_loud(outcome, acc, sil) ==
    CASE outcome = "ok" -> "completed"
      [] outcome = "fail" -> IF acc THEN "none" ELSE "failed"
      [] outcome = "cancelled" -> IF acc THEN "none" ELSE "canceled"
      [] OTHER -> "failed"

\* The status execute_task() registers for an outcome of the runner, "none"
\* when it registers nothing, and the activity that goes with it.
TerminalStatus(outcome, acc, sil) ==
    CASE outcome = "ok" -> "completed"
      [] outcome = "fail" -> IF acc THEN "none" ELSE "failed"
      [] outcome = "cancelled" -> IF acc \/ sil THEN "none" ELSE "canceled"
      [] OTHER -> "failed"

TerminalActivity(outcome) ==
    CASE outcome = "ok" -> "Task completed"
      [] outcome = "fail" -> "keep"
      [] outcome = "cancelled" -> "Task was canceled"
      [] OTHER -> "Uncaught exception"

\* What the await of asyncio_execution_fut in execute_task() delivers.
Outcome(its, i) == IF its[i].mc THEN "cancelled" ELSE its[i].ex

\* The 'except Exception' clause of execute_task(): the traceback goes
\* straight into the log buffer; an exception of register_task_update() is
\* only logged.
uncaught_exception(w, due) ==
    LET w1 == [w EXCEPT !.raised = FALSE,
                        !.logq = Append(@, [t |-> w.task_id,
                                            k |-> "traceback"])]
    IN [register_task_update(w1, "failed", "Uncaught exception", due)
          EXCEPT !.raised = FALSE]

\* Variant: the end of a task schedules no fetch iteration.
execute_task_finally_idle(w, single) ==
    IF single THEN [go_to_state_shutdown(w) EXCEPT !.raised = FALSE]
    ELSE w

\* The 'finally' clause of execute_task().  Its return in single-task mode
\* drops an exception that is on its way out.
execute_task_finally(w, single) ==
    IF single THEN [go_to_state_shutdown(w) EXCEPT !.raised = FALSE]
    ELSE IF w.state = "awake"
    THEN schedule_fetch_task(w, FETCH_TASK_DONE_SCHEDULE_NEW_DELAY)
    ELSE w

\* execute_task(): what it registers for the outcome out of the runner.  An
\* exception raised in the 'except CancelledError' clause is not caught.
report_outcome(w, out, due) ==
    LET st == TerminalStatus(out, w.acceptable, w.silent)
        w1 == register_task_update(w, st, TerminalActivity(out), due)
    IN CASE out = "exc" -> uncaught_exception(w, due)
         [] st = "none" -> w
         [] out = "cancelled" -> w1
         [] OTHER -> IF w1.raised THEN uncaught_exception(w1, due) ELSE w1

\* Variant: single-task mode is ignored.
execute_task_end_going_on(w, i, single, due) ==
    LET w1 == report_outcome(w, Outcome(w.iters, i), due)
        w2 == execute_task_finally(w1, FALSE)
    IN [w2 EXCEPT !.iters[i].pc = IF w2.raised THEN "raised" ELSE "done"]

\* execute_task() from the end of the await to its return.
execute_task_end(w, i, single, due) ==
    LET out == Outcome(w.iters, i)
        w1 == report_outcome(w, out, due)
        w2 == execute_task_finally(w1, single)
    IN [w2 EXCEPT !.iters[i].pc = IF w2.raised THEN "raised" ELSE "done"]

\* ---- initial state: after construction of the objects in cli.main() ----------
NoIter == [pc |-> "none", mc |-> FALSE, ex |-> "none", task |-> 0, delay |-> 0]
NoSleeper == [kind |-> "none", st |-> "done"]

WorkerInit ==
    /\ state = "starting"
    /\ iters = [i \in 1..(MaxIter + 1) |-> NoIter]
    /\ sif = 0 /\ aef = 0 /\ aggr = 0 /\ task_id = 0
    /\ cts = "none" /\ act = ""
    /\ silent = FALSE /\ acceptable = FALSE
    /\ logq = <<>>
    /\ pushAct = "none" /\ pushLog = "none"
    /\ sleepers = [j \in 1..(MaxSleep + 1) |-> NoSleeper]
    /\ sfut = 0
    /\ mir = [pc |-> "idle", task |-> 0, last |-> "-"]
    /\ shut = "off" /\ loopStopped = FALSE
    /\ enq = <<>> /\ stopped = {} /\ posts = <<>>
    /\ cnt = [iter |-> 0, sleep |-> 0, task |-> 0, env |-> 0]
    /\ inp = NoInput
    /\ run_single_task \in BOOLEAN

\* The event loop runs callbacks: after startup(), and not between loop.stop()
\* and the run_until_complete() calls of the shutdown.
LoopRuns == cnt.iter > 0 /\ (~loopStopped \/ shut # "off")

\* ---- startup() : the identity is known and the Manager accepts the sign-on ---
Startup ==
    /\ cnt.iter = 0 /\ shut = "off"
    /\ Apply(schedule_fetch_task(W, 0))

\* ---- single_iteration() -----------------------------------------------------
\* First step: up to the await of asyncio.sleep(delay).
IterStart(i) ==
    /\ LoopRuns /\ iters[i].pc = "new" /\ ~iters[i].mc
    /\ Apply(_cleanup_state_for_new_task(
                [W EXCEPT !.state = "awake", !.iters[i].pc = "sleep"]))

\* A cancelled iteration that waits for its start, its sleep or the answer to
\* POST /task ends with CancelledError; _single_iteration_done() returns.
IterCancelled(i) ==
    /\ LoopRuns /\ iters[i].pc \in {"new", "sleep", "fetch"} /\ iters[i].mc
    /\ Apply([W EXCEPT !.iters[i].pc = "done"])

\* Variant: an iteration that raised is not replaced.
_single_iteration_done_quiet(w, i) ==
    [w EXCEPT !.iters[i].pc = "done",
              !.inp = [NoInput EXCEPT !.op = "raise", !.i = i]]

\* _single_iteration_done(future) for an iteration that ended with an
\* exception other than CancelledError.
_single_iteration_done(w, i) ==
    schedule_fetch_task([w EXCEPT !.iters[i].pc = "done",
                                  !.inp = [NoInput EXCEPT !.op = "raise",
                                                          !.i = i]],
                        UNCAUGHT_EXCEPTION_RETRY_DELAY)

\* An exception that single_iteration() does not catch is raised where it
\* sleeps, checks or fetches, or came out of execute_task(); the
\* done-callback of the iteration runs.
IterRaise(i) ==
    /\ LoopRuns
    /\ \/ /\ iters[i].pc \in {"sleep", "fetch"} /\ ~iters[i].mc
          /\ cnt.env < MaxEnv
          /\ Apply(_single_iteration_done([W EXCEPT !.cnt.env = @ + 1], i))
       \/ /\ iters[i].pc = "raised"
          /\ Apply(_single_iteration_done(W, i))

\* Variant: a full queue postpones the fetch by the delay for an empty answer.
iteration_wake_soon(w, i, qs, ok) ==
    IF qs > QUEUE_SIZE_THRESHOLD
    THEN [schedule_fetch_task(w, FETCH_TASK_EMPTY_RETRY_DELAY)
            EXCEPT !.iters[i].pc = "done"]
    ELSE IF ~ok
    THEN [go_to_state_error(w) EXCEPT !.iters[i].pc = "done"]
    ELSE Post([w EXCEPT !.iters[i].pc = "fetch"],
              [u |-> "task", t |-> 0, s |-> ""])

\* single_iteration() from the end of its sleep to its next await or return.
\* qs: what queue_size() returns; ok: pre_task_sanity_check() does not raise.
iteration_wake(w, i, qs, ok) ==
    IF qs > QUEUE_SIZE_THRESHOLD
    THEN [schedule_fetch_task(w, FETCH_TASK_FAILED_RETRY_DELAY)
            EXCEPT !.iters[i].pc = "done"]
    ELSE IF ~ok
    THEN [go_to_state_error(w) EXCEPT !.iters[i].pc = "done"]
    ELSE Post([w EXCEPT !.iters[i].pc = "fetch"],
              [u |-> "task", t |-> 0, s |-> ""])

WakeInput(i, qs, ok) == [NoInput EXCEPT !.op = "wake", !.i = i, !.qs = qs,
                                        !.ok = ok]

\* After the sleep: queue size check, pre-task check, POST /task is sent.
IterWake(i) ==
    /\ LoopRuns /\ iters[i].pc = "sleep" /\ ~iters[i].mc
    /\ \/ /\ cnt.env < MaxEnv
          /\ \E c \in {<<QUEUE_SIZE_THRESHOLD + 1, TRUE>>,
                        <<QUEUE_SIZE_THRESHOLD, FALSE>>} :
               Apply(iteration_wake([W EXCEPT !.cnt.env = @ + 1,
                                              !.inp = WakeInput(i, c[1], c[2])],
                                    i, c[1], c[2]))
       \/ Apply(iteration_wake(
                   [W EXCEPT !.inp = WakeInput(i, QUEUE_SIZE_THRESHOLD, TRUE)],
                   i, QUEUE_SIZE_THRESHOLD, TRUE))

\* execute_task() up to its await of asyncio_execution_fut, whose first step
\* is the reset of the aggregate timing in TaskRunner.execute(); when
\* register_task_update('active') raises, the runner is not started and
\* execute_task() ends at once.
execute_task_begin(w, i, single, due) ==
    LET w1 == register_task_update(w, "active", "keep", due)
    IN IF w1.raised
       THEN [execute_task_finally(uncaught_exception(w1, due), single)
               EXCEPT !.iters[i].pc = "done"]
       ELSE [w1 EXCEPT !.aef = i, !.aggr = 0, !.iters[i].pc = "exec",
                       !.iters[i].ex = "running"]

\* Variant: the runner is started without registering the status 'active'.
fetch_answer_unannounced(w, i, resp, sr, single, due) ==
    CASE resp \in {"error", "other"} ->
           [schedule_fetch_task(w, FETCH_TASK_FAILED_RETRY_DELAY)
               EXCEPT !.iters[i].pc = "done"]
      [] resp = "204" ->
           [schedule_fetch_task(w, FETCH_TASK_EMPTY_RETRY_DELAY)
               EXCEPT !.iters[i].pc = "done"]
      [] resp = "423" ->
           [change_status(w, sr) EXCEPT !.iters[i].pc = "done"]
      [] OTHER ->
           LET t == w.cnt.task + 1
               w1 == [w EXCEPT !.task_id = t, !.cnt.task = t]
           IN [w1 EXCEPT !.aef = i, !.aggr = 0, !.iters[i].pc = "exec",
                         !.iters[i].ex = "running", !.iters[i].task = t]

\* Variant: an empty answer is retried after the delay for a failed fetch.
fetch_answer_late(w, i, resp, sr, single, due) ==
    CASE resp \in {"error", "other", "204"} ->
           [schedule_fetch_task(w, FETCH_TASK_FAILED_RETRY_DELAY)
               EXCEPT !.iters[i].pc = "done"]
      [] resp = "423" ->
           [change_status(w, sr) EXCEPT !.iters[i].pc = "done"]
      [] OTHER ->
           LET t == w.cnt.task + 1
               w1 == [w EXCEPT !.task_id = t, !.cnt.task = t,
                               !.iters[i].task = t]
           IN execute_task_begin(w1, i, single, due)

\* fetch_task() after the answer to POST /task, and for a 200 execute_task()
\* up to its await of asyncio_execution_fut.
fetch_answer(w, i, resp, sr, single, due) ==
    CASE resp \in {"error", "other"} ->
           [schedule_fetch_task(w, FETCH_TASK_FAILED_RETRY_DELAY)
               EXCEPT !.iters[i].pc = "done"]
      [] resp = "204" ->
           [schedule_fetch_task(w, FETCH_TASK_EMPTY_RETRY_DELAY)
               EXCEPT !.iters[i].pc = "done"]
      [] resp = "423" ->
           [change_status(w, sr) EXCEPT !.iters[i].pc = "done"]
      [] OTHER ->
           LET t == w.cnt.task + 1
               w1 == [w EXCEPT !.task_id = t, !.cnt.task = t,
                               !.iters[i].task = t]
           IN execute_task_begin(w1, i, single, due)

RespInput(i, resp, sr) == [NoInput EXCEPT !.op = "resp", !.i = i,
                                         !.resp = resp, !.sr = sr]

IterFetchResp(i) ==
    /\ LoopRuns /\ iters[i].pc = "fetch" /\ ~iters[i].mc
    /\ \/ \E resp \in {"error", "204", "other"} :
            Apply(fetch_answer([W EXCEPT !.inp = RespInput(i, resp, "")],
                               i, resp, "none", run_single_task, FALSE))
       \/ /\ cnt.env < MaxEnv
          /\ \E sr \in StatusRequests :
               Apply(fetch_answer([W EXCEPT !.cnt.env = @ + 1,
                                            !.inp = RespInput(i, "423", sr)],
                                  i, "423", sr, run_single_task, FALSE))
       \/ /\ cnt.task < MaxTasks
          /\ \E due \in BOOLEAN :
               Apply(fetch_answer([W EXCEPT !.inp = RespInput(i, "200", "")],
                                  i, "200", "none", run_single_task, due))

\* ---- TaskRunner.execute() as seen by the worker -------------------------------
\* A command registers a log line or an activity.
ExecEvent(i) ==
    /\ LoopRuns /\ iters[i].ex = "running" /\ cnt.env < MaxEnv
    /\ \E due \in BOOLEAN :
         \/ Apply(register_log([W EXCEPT !.cnt.env = @ + 1], "command", due))
         \/ Apply(register_task_update([W EXCEPT !.cnt.env = @ + 1],
                                       "none", "command", due))

\* The runner returns true or false, or raises; with invalid settings the
\* command registers a log and the status 'failed' before it returns false.
\* timed: the commands that ran left timing in the aggregate (any command
\* that got to execute(), or one with invalid settings after such a
\* command); a task without commands, or one that ends at its first command
\* with a ValueError or invalid settings, leaves it empty.  Timing that is
\* left counts as an event of the running command.
ExecFinish(i) ==
    /\ LoopRuns /\ iters[i].ex = "running"
    /\ \E timed \in {0, 1} :
         /\ cnt.env + timed <= MaxEnv
         /\ \/ \E out \in {"ok", "fail", "exc"} :
                 Apply([W EXCEPT !.iters[i].ex = out,
                                 !.aggr = timed * iters[i].task,
                                 !.cnt.env = @ + timed])
            \/ \E due \in BOOLEAN :
                 Apply([register_task_update(
                            register_log(W, "invalid settings", due),
                            "failed", "Invalid settings", due)
                        EXCEPT !.iters[i].ex = "fail",
                               !.aggr = timed * iters[i].task,
                               !.cnt.env = @ + timed])

\* The cancelled runner has unwound; the commands that ran before the
\* cancelled one may have left timing in the aggregate.
ExecCancelled(i) ==
    /\ LoopRuns /\ iters[i].ex = "cancelling"
    /\ \E timed \in {0, 1} :
          /\ cnt.env + timed <= MaxEnv
          /\ Apply([W EXCEPT !.iters[i].ex = "cancelled",
                             !.aggr = timed * iters[i].task,
                             !.cnt.env = @ + timed])

\* execute_task() resumes after the await of asyncio_execution_fut.
IterExecDone(i) ==
    /\ LoopRuns /\ iters[i].pc = "exec" /\ ExecDone(iters, i)
    /\ \E due \in BOOLEAN : Apply(execute_task_end(W, i, run_single_task, due))

\* ---- signals (cli.py) ---------------------------------------------------------
SigUsr1 ==
    /\ LoopRuns /\ cnt.env < MaxEnv
    /\ Apply(go_to_state_asleep([W EXCEPT !.cnt.env = @ + 1]))

SigUsr2 ==
    /\ LoopRuns /\ cnt.env < MaxEnv
    /\ Apply(go_to_state_awake([W EXCEPT !.cnt.env = @ + 1]))

\* ---- sleeping() and sleeping_for_error() --------------------------------------
\* One round of the status-change poll: 204 or an error goes on sleeping, 200
\* applies the requested status and ends the poll.
SleepPoll(j) ==
    /\ LoopRuns /\ sleepers[j].kind = "poll" /\ sleepers[j].st = "pending"
    /\ \/ /\ state = "shutting-down"
          /\ Apply([W EXCEPT !.sleepers[j].st = "done"])
       \/ /\ cnt.env < MaxEnv
          /\ \E sr \in StatusRequests :
               Apply([change_status([W EXCEPT !.cnt.env = @ + 1], sr)
                      EXCEPT !.sleepers[j].st = "done"])

\* ERROR_RETRY_DELAY has passed.
ErrorTimer(j) ==
    /\ LoopRuns /\ sleepers[j].kind = "error" /\ sleepers[j].st = "pending"
    /\ Apply([go_to_state_awake(W) EXCEPT !.sleepers[j].st = "done"])

SleepCancelled(j) ==
    /\ LoopRuns /\ sleepers[j].st = "cancelling"
    /\ Apply([W EXCEPT !.sleepers[j].st = "done"])

\* ---- MayIRun.one_iteration() and stop_current_task() --------------------------
MirPoll ==
    /\ LoopRuns /\ mir.pc = "idle" /\ cnt.env < MaxEnv
    /\ active_task_id(W) # 0
    /\ Apply([W EXCEPT !.mir = [pc |-> "ask", task |-> active_task_id(W),
                                 last |-> "-"],
                       !.cnt.env = @ + 1])

\* Variant: stops whatever task is executing, without comparing the ids.
stop_current_task_any(w, t) ==
    IF w.aef = 0 \/ ExecDone(w.iters, w.aef)
    THEN [w EXCEPT !.mir = [pc |-> "idle", task |-> 0, last |-> "no task"]]
    ELSE [w EXCEPT !.silent = TRUE, !.stopped = @ \cup {t},
                   !.mir.pc = "abort"]

\* stop_current_task(t) up to its await of abort_current_task().
\* mir.last keeps which of the two early returns was taken.
stop_current_task(w, t) ==
    IF w.aef = 0 \/ ExecDone(w.iters, w.aef)
    THEN [w EXCEPT !.mir = [pc |-> "idle", task |-> 0, last |-> "no task"]]
    ELSE IF w.task_id # t
    THEN [w EXCEPT !.mir = [pc |-> "idle", task |-> 0, last |-> "mismatch"]]
    ELSE [w EXCEPT !.silent = TRUE, !.stopped = @ \cup {t},
                   !.mir.pc = "abort"]

MirInput(r, sr) == [NoInput EXCEPT !.op = "may-i-run", !.resp = r, !.sr = sr]

\* Variant: does not forward status_requested.
may_i_run_answer_unforwarded(w, t, r, sr) ==
    LET w0 == [w EXCEPT !.inp = MirInput(r, sr)]
    IN IF r \in {"error", "keep"}
       THEN [w0 EXCEPT !.mir = [pc |-> "idle", task |-> 0, last |-> "-"]]
       ELSE IF sr = "" THEN stop_current_task(w0, t)
       ELSE [stop_current_task(w0, t) EXCEPT !.mir.last = "-"]

\* one_iteration() from the answer to GET /may-i-run/{t} on: r is "error" when
\* the Manager cannot be reached, "keep" for may_keep_running true, "stop" for
\* false; sr is status_requested, "" when absent.
may_i_run_answer(w, t, r, sr) ==
    LET w0 == [w EXCEPT !.inp = MirInput(r, sr)]
    IN IF r \in {"error", "keep"}
       THEN [w0 EXCEPT !.mir = [pc |-> "idle", task |-> 0, last |-> "-"]]
       ELSE IF sr = "" THEN stop_current_task(w0, t)
       ELSE [stop_current_task(change_status(w0, sr), t)
             EXCEPT !.mir.last = "-"]

\* The answer to GET /may-i-run/{task}.
MirAnswer ==
    /\ LoopRuns /\ mir.pc = "ask"
    /\ \/ \E r \in {"error", "keep"} :
            Apply(may_i_run_answer(W, mir.task, r, ""))
       \/ Apply(may_i_run_answer(W, mir.task, "stop", ""))
       \/ /\ cnt.env < MaxEnv
          /\ \E sr \in StatusRequests :
               Apply(may_i_run_answer([W EXCEPT !.cnt.env = @ + 1], mir.task,
                                      "stop", sr))

StopAfterAbort ==
    /\ LoopRuns /\ mir.pc = "abort"
    /\ \E due \in BOOLEAN :
         Apply([stop_after_abort(W, due) EXCEPT !.mir.pc = "flush"])

\* flush_and_report() has returned; POST /tasks/{task}/return is sent.
StopFlushed ==
    /\ LoopRuns /\ mir.pc = "flush"
    /\ Apply(Post([W EXCEPT !.mir.pc = "post"],
                  [u |-> "return", t |-> mir.task, s |-> ""]))

\* The answer to POST /tasks/{task}/return.
StopReturnAnswer ==
    /\ LoopRuns /\ mir.pc = "post"
    /\ \/ Apply([W EXCEPT !.mir.pc = "idle", !.mir.task = 0])
       \/ \E line \in {"returned", "could not return"}, due \in BOOLEAN :
            Apply([register_log(W, line, due)
                   EXCEPT !.mir.pc = "idle", !.mir.task = 0])

\* ---- the delayed pushes -------------------------------------------------------
PushActFire ==
    /\ LoopRuns /\ pushAct = "pending"
    /\ Apply([push_to_manager(W) EXCEPT !.pushAct = "done"])

PushLogFire ==
    /\ LoopRuns /\ pushLog = "pending"
    /\ Apply([push_to_manager(W) EXCEPT !.pushLog = "done"])

PushCancelled ==
    /\ LoopRuns
    /\ \/ pushAct = "cancelling" /\ Apply([W EXCEPT !.pushAct = "done"])
       \/ pushLog = "cancelling" /\ Apply([W EXCEPT !.pushLog = "done"])

\* ---- do_clean_shutdown() and shutdown() ---------------------------------------
\* SIGTERM/SIGINT, or run_forever() returned after loop.stop():
\* do_clean_shutdown() cancels the shutdown future and the may-I-run task and
\* runs the loop until that task is done or 5 s are over.
ShutdownSignal ==
    /\ cnt.iter > 0 /\ shut = "off"
    /\ loopStopped \/ cnt.env < MaxEnv
    /\ Apply([W EXCEPT !.cnt.env = IF loopStopped THEN @ ELSE @ + 1,
                       !.shut = "wait-mir",
                       !.mir = IF @.pc = "abort" THEN @
                               ELSE [pc |-> "off", task |-> 0, last |-> "-"]])

\* shutdown() up to its wait for the cancelled fetch iteration.
ShutdownBegin ==
    /\ shut = "wait-mir"
    /\ Apply(stop_fetching_tasks([W EXCEPT !.shut = "wait-fetch",
                                           !.state = "shutting-down",
                                           !.acceptable = TRUE]))

\* The fetch iteration is done; stop_sleeping(), then abort_current_task().
ShutdownAbort ==
    /\ shut = "wait-fetch"
    /\ sif = 0 \/ IterDone(iters, sif)
    /\ Apply(stop_sleeping([W EXCEPT !.shut = "abort"]))

\* The runner was aborted; what is still to be pushed is pushed, then
\* flush_and_report().
ShutdownPush ==
    /\ shut = "abort"
    /\ LET sched == pushAct \in {"pending", "cancelling"}
                    \/ pushLog \in {"pending", "cancelling"}
           w1 == [W EXCEPT !.shut = "flush"]
       IN Apply(IF sched THEN push_to_manager(w1) ELSE w1)

ShutdownSignOff ==
    /\ shut = "flush"
    /\ Apply(Post([W EXCEPT !.shut = "sign-off"],
                  [u |-> "sign-off", t |-> 0, s |-> ""]))

\* Variant: an error on /sign-off leaves the shutdown where it is.
sign_off_answer_strict(w, r) ==
    IF r = "error" THEN [w EXCEPT !.inp = [NoInput EXCEPT !.op = "sign-off",
                                                          !.resp = r]]
    ELSE [w EXCEPT !.shut = "finished", !.acceptable = FALSE,
                   !.inp = [NoInput EXCEPT !.op = "sign-off", !.resp = r]]

\* shutdown() after the POST /sign-off: r is its answer or "error" for an
\* exception, which is logged only.
sign_off_answer(w, r) ==
    [w EXCEPT !.shut = "finished", !.acceptable = FALSE,
              !.inp = [NoInput EXCEPT !.op = "sign-off", !.resp = r]]

ShutdownEnd ==
    /\ shut = "sign-off"
    /\ \E r \in {"ok", "error"} : Apply(sign_off_answer(W, r))

Iters == 1..MaxIter
Sleepers == 1..MaxSleep

Next ==
    \/ Startup
    \/ \E i \in Iters : IterStart(i)
    \/ \E i \in Iters : IterCancelled(i)
    \/ \E i \in Iters : IterRaise(i)
    \/ \E i \in Iters : IterWake(i)
    \/ \E i \in Iters : IterFetchResp(i)
    \/ \E i \in Iters : ExecEvent(i)
    \/ \E i \in Iters : ExecFinish(i)
    \/ \E i \in Iters : ExecCancelled(i)
    \/ \E i \in Iters : IterExecDone(i)
    \/ SigUsr1
    \/ SigUsr2
    \/ \E j \in Sleepers : SleepPoll(j)
    \/ \E j \in Sleepers : ErrorTimer(j)
    \/ \E j \in Sleepers : SleepCancelled(j)
    \/ MirPoll
    \/ MirAnswer
    \/ StopAfterAbort
    \/ StopFlushed
    \/ StopReturnAnswer
    \/ PushActFire
    \/ PushLogFire
    \/ PushCancelled
    \/ ShutdownSignal
    \/ ShutdownBegin
    \/ ShutdownAbort
    \/ ShutdownPush
    \/ ShutdownSignOff
    \/ ShutdownEnd

\* ---- the update queue (TaskUpdateQueue), as the specification describes it -----
\* tuq.q: the persisted entries, by sequence number, oldest first; tuq.next:
\* the next sequence number; tuq.fly: the entry whose POST is in flight, 0 for
\* none; tuq.ans: the outcome the consumer saw last; tuq.posted: the POSTs
\* sent so far; tuq.fails: failures and restarts so far.
TuqInit ==
    [q |-> <<>>, next |-> 1, fly |-> 0, ans |-> "-", posted |-> <<>>,
     fails |-> 0]

\* enqueue(url, payload): appends under the next sequence number.
TuqEnqueue ==
    /\ tuq.next <= MaxQueue
    /\ tuq' = [tuq EXCEPT !.q = Append(@, tuq.next), !.next = @ + 1]
    /\ UNCHANGED <<wvars, aux>>

\* Variant: the consumer takes the newest entry.
TuqPost_newest ==
    /\ tuq.fly = 0 /\ tuq.q # <<>>
    /\ tuq' = [tuq EXCEPT !.fly = tuq.q[Len(tuq.q)],
                          !.posted = Append(@, tuq.q[Len(tuq.q)])]
    /\ UNCHANGED <<wvars, aux>>

\* Consumer loop: take the oldest entry and POST it.
TuqPost ==
    /\ tuq.fly = 0 /\ tuq.q # <<>>
    /\ tuq' = [tuq EXCEPT !.fly = Head(tuq.q),
                          !.posted = Append(@, Head(tuq.q))]
    /\ UNCHANGED <<wvars, aux>>

\* Consumer loop: on 2xx delete; on 4xx log and delete.
TuqAnswered ==
    /\ tuq.fly # 0
    /\ \E a \in {"2xx", "4xx"} :
          tuq' = [tuq EXCEPT !.q = Tail(@), !.fly = 0, !.ans = a]
    /\ UNCHANGED <<wvars, aux>>

\* Variant: a failed POST drops the entry.
TuqFailed_drop ==
    /\ tuq.fly # 0 /\ tuq.fails < MaxFail
    /\ \E a \in {"transport", "5xx"} :
          tuq' = [tuq EXCEPT !.q = Tail(@), !.fly = 0, !.ans = a,
                            !.fails = @ + 1]
    /\ UNCHANGED <<wvars, aux>>

\* Consumer loop: on a transport error or a 5xx sleep and retry the same entry.
TuqFailed ==
    /\ tuq.fly # 0 /\ tuq.fails < MaxFail
    /\ \E a \in {"transport", "5xx"} :
          tuq' = [tuq EXCEPT !.fly = 0, !.ans = a, !.fails = @ + 1]
    /\ UNCHANGED <<wvars, aux>>

\* The process restarts: the persisted entries stay, a POST in flight is
\* forgotten.
TuqRestart ==
    /\ tuq.fails < MaxFail
    /\ tuq' = [tuq EXCEPT !.fly = 0, !.ans = "restart", !.fails = @ + 1]
    /\ UNCHANGED <<wvars, aux>>

QueueNext ==
    \/ TuqEnqueue
    \/ TuqPost
    \/ TuqAnswered
    \/ TuqFailed
    \/ TuqRestart

\* ---- the push layer on its own ------------------------------------------------
\* register_log(), register_task_update(), push_to_manager() and the two
\* delayed pushes under arbitrary calls made while a task is the current one.  psh.reg: the log lines registered so
\* far; psh.hist: the updates enqueued so far, each with the number of lines
\* registered when it was enqueued; psh.op, psh.arg, psh.due: the last call.
PushInit ==
    [hist |-> <<>>, reg |-> <<>>, calls |-> 0, op |-> "-", arg |-> "",
     due |-> FALSE]

Lines == <<"line 1", "line 2", "line 3", "line 4", "line 5">>

Stamp(updates, n) == [k \in 1..Len(updates) |-> [u |-> updates[k], n |-> n]]

\* One call: the worker becomes r, lines are the log lines it registered.
PStep(r, op, arg, due, lines, c) ==
    /\ psh.calls + c <= MaxCalls
    /\ Assign(r)
    /\ psh' = [hist |-> psh.hist \o Stamp(r.enq, Len(psh.reg) + Len(lines)),
               reg |-> psh.reg \o lines, calls |-> psh.calls + c, op |-> op,
               arg |-> arg, due |-> due]
    /\ UNCHANGED <<run_single_task, tuq, reg, outp, rn, pf>>

PRegisterLog ==
    /\ task_id # 0 /\ Len(psh.reg) < MaxLogs
    /\ LET line == Lines[Len(psh.reg) + 1] IN
       \E due \in BOOLEAN :
          PStep(register_log(W, line, due), "log", line, due,
                <<[t |-> task_id, k |-> line]>>, 1)

PRegisterActivity ==
    /\ task_id # 0
    /\ \E due \in BOOLEAN, a \in {"rendering", "copying"} :
       PStep(register_task_update(W, "none", a, due), "act", a, due, <<>>, 1)

PRegisterStatus ==
    /\ task_id # 0
    /\ \E due \in BOOLEAN, st \in {"active", "failed"} :
       PStep(register_task_update(W, st, "keep", due), "status", st, due,
             <<>>, 1)

\* execute_task() writes a traceback for the outcome out of the runner: the
\* runner raised, or the registration of the outcome did.
Traced(w, out) ==
    \/ out = "exc"
    \/ /\ out \in {"ok", "fail"} /\ w.aggr # 0
       /\ TerminalStatus(out, w.acceptable, w.silent) # "none"

\* The end of execute_task() for an outcome of the runner.
PTaskEnd ==
    /\ task_id # 0
    /\ \A n \in 1..Len(psh.reg) : psh.reg[n].k # "traceback"
    /\ \E due \in BOOLEAN, out \in {"ok", "fail", "cancelled", "exc"} :
          PStep(report_outcome(W, out, due), "end", out, due,
                IF Traced(W, out) THEN <<[t |-> task_id, k |-> "traceback"]>>
                ELSE <<>>, 1)

\* The runner sums the timing of a command that ran, TaskRunner.execute()
\* of the next task empties the sum.
PTiming ==
    /\ task_id # 0
    /\ PStep([W EXCEPT !.aggr = IF @ = 0 THEN task_id ELSE 0], "timing", "",
             FALSE, <<>>, 1)

\* stop_current_task() sets task_is_silently_aborting.
PStop ==
    /\ task_id # 0 /\ ~silent
    /\ PStep([W EXCEPT !.silent = TRUE], "stop", "", FALSE, <<>>, 1)

\* single_iteration() cleans up, fetch_task() stores the id of the next task.
PNewTask ==
    /\ cnt.task < MaxTasks
    /\ PStep([_cleanup_state_for_new_task(W) EXCEPT !.task_id = cnt.task + 1,
                                                   !.cnt.task = @ + 1],
             "task", "", FALSE, <<>>, 0)

PFireAct ==
    /\ pushAct = "pending"
    /\ PStep([push_to_manager(W) EXCEPT !.pushAct = "done"], "fire", "act",
             FALSE, <<>>, 1)

PFireLog ==
    /\ pushLog = "pending"
    /\ PStep([push_to_manager(W) EXCEPT !.pushLog = "done"], "fire", "log",
             FALSE, <<>>, 1)

\* A cancelled delayed push ends.
PCancelled ==
    \/ /\ pushAct = "cancelling"
       /\ PStep([W EXCEPT !.pushAct = "done"], "cancelled", "act", FALSE,
                <<>>, 0)
    \/ /\ pushLog = "cancelling"
       /\ PStep([W EXCEPT !.pushLog = "done"], "cancelled", "log", FALSE,
                <<>>, 0)

PushNext ==
    \/ PRegisterLog
    \/ PRegisterActivity
    \/ PRegisterStatus
    \/ PTaskEnd
    \/ PTiming
    \/ PStop
    \/ PNewTask
    \/ PFireAct
    \/ PFireLog
    \/ PCancelled

\* ---- startup(), signon(), register_at_manager() -------------------------------
\* The configuration the worker is constructed with: the stored identity ("" =
\* not set), may_retry_loop and initial_state.
Configs ==
    [id : {"", "stored id"}, secret : {"", "stored secret"}, retry : BOOLEAN,
     initial : {"awake", "testing"}]

DefaultConfig == [id |-> "stored id", secret |-> "stored secret",
                  retry |-> TRUE, initial |-> "awake"]

NoAuth == <<>>

RegStart(c) ==
    [cfg |-> c, pc |-> "start", id |-> c.id, secret |-> c.secret,
     auth |-> NoAuth, home |-> <<>>, hist |-> <<>>, tried |-> FALSE,
     do_register |-> FALSE, nsec |-> 0, err |-> ""]

\* generate_secret(): the n-th secret generated differs from every other one.
GeneratedSecrets == <<"generated 1", "generated 2">>

\* The _id in the answer to /register-worker.
AssignedId == "assigned id"

\* What the Manager can answer to a POST; "no answer" is a
\* requests.RequestException without a response.
Answers == {"ok", "401", "403", "404", "500", "no answer"}

\* manager.post(url) of _keep_posting_to_manager(), after seconds after the
\* answer before it: /register-worker goes out with auth=None and carries the
\* secret, /sign-on with manager.auth.
PostAfter(g, url, after) ==
    [g EXCEPT !.hist = Append(@,
        IF url = "register-worker"
        THEN [u |-> url, auth |-> NoAuth, secret |-> g.secret, r |-> "",
              after |-> after]
        ELSE [u |-> url, auth |-> g.auth, secret |-> "", r |-> "",
              after |-> after])]

\* The first POST of _keep_posting_to_manager().
KeepPost(g, url) == PostAfter(g, url, 0)

\* The POST of _keep_posting_to_manager() after its sleep.
PostAgain(g, url) == PostAfter(g, url, REGISTER_AT_MANAGER_FAILED_RETRY_DELAY)

\* _keep_posting_to_manager() after a failed POST: it sleeps and posts again
\* unless may_retry_loop is off or the answer is 401 or 403.
Retries(g, r) == g.cfg.retry /\ r \notin {"401", "403"}

\* The exception that leaves startup(): an HTTPError becomes
\* UnableToRegisterError, any other RequestException passes through.
Raise(g, r) ==
    [g EXCEPT !.pc = "failed",
              !.err = IF r = "no answer" THEN "RequestException"
                      ELSE "UnableToRegisterError"]

\* Variant: registers with the stored secret.
register_begin_stale(g) ==
    KeepPost([g EXCEPT !.pc = "register"], "register-worker")

\* register_at_manager() up to its POST.
register_begin(g) ==
    LET n == g.nsec + 1
    IN KeepPost([g EXCEPT !.nsec = n, !.secret = GeneratedSecrets[n],
                          !.pc = "register"], "register-worker")

\* signon() up to its POST.
signon_begin(g, autoregister_already_tried) ==
    KeepPost([g EXCEPT !.pc = "signon",
                       !.tried = autoregister_already_tried], "sign-on")

\* Variant: signs on whatever the stored identity is.
startup_begin_signon(g) ==
    signon_begin([g EXCEPT !.auth = <<g.id, g.secret>>], FALSE)

\* startup() up to its first POST.
startup_begin(g) ==
    IF g.id = "" \/ g.secret = ""
    THEN register_begin([g EXCEPT !.do_register = TRUE])
    ELSE signon_begin([g EXCEPT !.auth = <<g.id, g.secret>>], FALSE)

\* Variant: writes the identity whatever the answer is.
register_answer_written(g, r) ==
    LET g1 == [g EXCEPT !.id = AssignedId,
                        !.auth = <<AssignedId, g.secret>>,
                        !.home = <<AssignedId, g.secret>>]
    IN IF r = "ok"
       THEN IF g.do_register THEN [g1 EXCEPT !.pc = "ready"]
            ELSE signon_begin(g1, TRUE)
       ELSE IF Retries(g, r) THEN PostAgain(g1, "register-worker")
       ELSE Raise(g1, r)

\* register_at_manager() from the answer r on: the identity is stored and
\* written to the home configuration; pc "ready" is back in startup().
register_answer(g, r) ==
    IF r = "ok"
    THEN LET g1 == [g EXCEPT !.id = AssignedId,
                             !.auth = <<AssignedId, g.secret>>,
                             !.home = <<AssignedId, g.secret>>]
         IN IF g.do_register THEN [g1 EXCEPT !.pc = "ready"]
            ELSE signon_begin(g1, TRUE)
    ELSE IF Retries(g, r) THEN PostAgain(g, "register-worker")
    ELSE Raise(g, r)

\* Variant: re-registers on every 401.
signon_answer_again(g, r) ==
    IF r = "ok" THEN [g EXCEPT !.pc = "ready"]
    ELSE IF r = "401" THEN register_begin(g)
    ELSE IF Retries(g, r) THEN PostAgain(g, "sign-on")
    ELSE Raise(g, r)

\* signon() from the answer r on.
signon_answer(g, r) ==
    IF r = "ok" THEN [g EXCEPT !.pc = "ready"]
    ELSE IF r = "401"
    THEN IF g.tried THEN Raise(g, r) ELSE register_begin(g)
    ELSE IF Retries(g, r) THEN PostAgain(g, "sign-on")
    ELSE Raise(g, r)

\* The end of startup(): the initial state is acknowledged unless it is
\* 'awake', and the first fetch iteration is scheduled.
startup_end(w, initial_state) ==
    schedule_fetch_task(IF initial_state # "awake"
                        THEN ack_status_change(w, initial_state)
                        ELSE w, 0)

\* One step of startup(): g is the registration after it.
SStep(g) ==
    /\ Len(g.hist) <= MaxPosts
    /\ IF g.pc = "ready"
       THEN /\ reg' = [g EXCEPT !.pc = "done"]
            /\ Assign(startup_end(W, g.cfg.initial))
       ELSE /\ reg' = g
            /\ Assign(W)
    /\ UNCHANGED <<run_single_task, tuq, psh, outp, rn, pf>>

SBegin == reg.pc = "start" /\ SStep(startup_begin(reg))

\* The Manager answers the POST in flight with r.
Answered(g, r) == [g EXCEPT !.hist[Len(g.hist)].r = r]

SRegisterAnswer ==
    /\ reg.pc = "register"
    /\ \E r \in Answers : SStep(register_answer(Answered(reg, r), r))

SSignonAnswer ==
    /\ reg.pc = "signon"
    /\ \E r \in Answers : SStep(signon_answer(Answered(reg, r), r))

StartupNext ==
    \/ SBegin
    \/ SRegisterAnswer
    \/ SSignonAnswer

\* ---- the task runner on its own ------------------------------------------------
\* A timing is a function from the names of intervals to seconds; the empty
\* OrderedDict is the function with the empty domain.
NoTiming == <<>>

TimingKeys == {"total", "rendering"}

\* dict.get(name, 0.0)
Duration(t, name) == IF name \in DOMAIN t THEN t[name] ELSE 0

\* Timing.__iadd__(self, other): other is merged into self.
Timing_iadd(self, other) ==
    [self |-> [name \in DOMAIN self \cup DOMAIN other |->
                  Duration(self, name) + Duration(other, name)],
     other |-> other]

\* Timing.__add__(self, other): the merger is made in a copy of self.
Timing_add(self, other) ==
    [result |-> Timing_iadd(self, other).self, self |-> self,
     other |-> Timing_iadd(self, other).other]

\* What record_duration('total') and the checkpoints of one command leave in
\* its timing.
Recordings ==
    {[name \in {"total"} |-> d] : d \in 1..MaxDuration}
        \cup {[name \in TimingKeys |-> d] : d \in 1..MaxDuration}

\* What a command of a task turns out to be: one without a name, settings
\* or handler; one whose settings do not validate; one that executes, fails
\* in execute(), or is cancelled in execute().
CommandKinds == {"unknown", "invalid", "ok", "error", "cancel"}

TaskLists ==
    UNION {[1..n -> CommandKinds] : n \in 0..MaxCommands}

\* shared: AbstractCommand.timing, one OrderedDict for all commands;
\* aggr: TaskRunner._aggr_timing_info; built: the commands constructed in
\* this task; rets: what their run() returned; own: what each of them
\* recorded; res: how execute() ended.
RunnerInit ==
    [shared |-> NoTiming, aggr |-> NoTiming, task |-> <<>>, idx |-> 0,
     built |-> 0, rets |-> <<>>, own |-> <<>>, res |-> "idle", n |-> 0]

\* FlamencoWorker.execute_task() up to the first step of TaskRunner.execute():
\* register_task_update('active') reads aggr_timing_info before it is reset.
execute(r, cmds) ==
    IF r.aggr # NoTiming
    THEN [r EXCEPT !.task = cmds, !.idx = 0, !.built = 0, !.rets = <<>>,
                   !.own = <<>>, !.res = "dropped", !.n = @ + 1]
    ELSE [r EXCEPT !.aggr = NoTiming, !.task = cmds, !.idx = 0, !.built = 0,
                   !.rets = <<>>, !.own = <<>>, !.res = "running",
                   !.n = @ + 1]

\* Lines 72-75 of _execute(): the timing of the command is added.
Aggregate(sum, timing) ==
    [name \in DOMAIN sum \cup DOMAIN timing |->
        Duration(sum, name) + Duration(timing, name)]

\* Variant: a command that fails does not end the task.
_execute_command_on(r, t) ==
    LET kind == r.task[r.idx + 1]
        r1 == [r EXCEPT !.idx = @ + 1]
        r2 == [r1 EXCEPT !.built = @ + 1]
    IN CASE kind = "unknown" -> [r1 EXCEPT !.res = "raised"]
         [] r.aggr # NoTiming -> [r2 EXCEPT !.res = "raised"]
         [] kind = "invalid" ->
              [r2 EXCEPT !.aggr = Aggregate(@, r.shared),
                         !.rets = Append(@, FALSE),
                         !.own = Append(@, NoTiming)]
         [] kind = "cancel" -> [r2 EXCEPT !.shared = t, !.res = "cancelled"]
         [] OTHER ->
              [r2 EXCEPT !.shared = t, !.aggr = Aggregate(@, t),
                         !.rets = Append(@, kind = "ok"),
                         !.own = Append(@, t)]

\* One round of the loop of _execute().  t: what the command records when
\* it gets to execute().  The worker's register_task_update() raises
\* AttributeError once aggr_timing_info is not empty.
_execute_command(r, t) ==
    LET kind == r.task[r.idx + 1]
        r1 == [r EXCEPT !.idx = @ + 1]
        r2 == [r1 EXCEPT !.built = @ + 1]
    IN CASE kind = "unknown" -> [r1 EXCEPT !.res = "raised"]
         [] r.aggr # NoTiming -> [r2 EXCEPT !.res = "raised"]
         [] kind = "invalid" ->
              [r2 EXCEPT !.aggr = Aggregate(@, r.shared),
                         !.rets = Append(@, FALSE),
                         !.own = Append(@, NoTiming), !.res = "false"]
         [] kind = "cancel" -> [r2 EXCEPT !.shared = t, !.res = "cancelled"]
         [] OTHER ->
              [r2 EXCEPT !.shared = t, !.aggr = Aggregate(@, t),
                         !.rets = Append(@, kind = "ok"),
                         !.own = Append(@, t),
                         !.res = IF kind = "ok" THEN "running" ELSE "false"]

RStep(r) ==
    /\ rn' = r
    /\ UNCHANGED <<wvars, tuq, psh, reg, outp, pf>>

RExecute ==
    /\ rn.res # "running" /\ rn.n < MaxRuns
    /\ \E cmds \in TaskLists : RStep(execute(rn, cmds))

RCommand ==
    /\ rn.res = "running" /\ rn.idx < Len(rn.task)
    /\ \E t \in Recordings : RStep(_execute_command(rn, t))

\* The loop of _execute() is over: it returns True.
RReturn ==
    /\ rn.res = "running" /\ rn.idx = Len(rn.task)
    /\ RStep([rn EXCEPT !.res = "true"])

RunnerNext ==
    \/ RExecute
    \/ RCommand
    \/ RReturn

\* ---- the subprocess PID file, shared by two workers ---------------------------
\* file: "absent", or the PID it holds (0 while it is created but not yet
\* written) and the command that created it; alive: the PIDs of the running
\* subprocesses; pc, proc: where each command is and the PID it spawned.
Workers == {1, 2}

NoFile == [pid |-> 0, by |-> 0]

PidInit ==
    [file |-> NoFile, alive |-> {}, npid |-> 0,
     pc |-> [w \in Workers |-> "idle"], proc |-> [w \in Workers |-> 0],
     res |-> [w \in Workers |-> "-"]]

\* validate() up to the test of psutil.Process(pid).
validate_read(f, w) ==
    IF f.file = NoFile THEN [f EXCEPT !.pc[w] = "spawn", !.res[w] = "-"]
    ELSE IF f.file.pid = 0 \/ f.file.pid \in f.alive
    THEN [f EXCEPT !.res[w] = "refused"]
    ELSE [f EXCEPT !.pc[w] = "stale", !.res[w] = "-"]

\* pidfile.unlink() of validate() and of the end of subprocess():
\* FileNotFoundError when the file is gone.
unlink(f, w, next) ==
    IF f.file = NoFile THEN [f EXCEPT !.pc[w] = "idle", !.res[w] = "raised"]
    ELSE [f EXCEPT !.file = NoFile, !.pc[w] = next]

\* asyncio.create_subprocess_exec()
spawn(f, w) ==
    [f EXCEPT !.npid = @ + 1, !.proc[w] = f.npid + 1,
              !.alive = @ \cup {f.npid + 1}, !.pc[w] = "create"]

\* pid_path.open('x'): on FileExistsError abort() kills the subprocess.
create(f, w) ==
    IF f.file = NoFile
    THEN [f EXCEPT !.file = [pid |-> 0, by |-> w], !.pc[w] = "write"]
    ELSE [f EXCEPT !.alive = @ \ {f.proc[w]}, !.proc[w] = 0,
                   !.pc[w] = "idle", !.res[w] = "exists"]

\* pidfile.write(str(pid)) and the close: into the file this command
\* created, whether or not it is still linked.
write(f, w) ==
    IF f.file = [pid |-> 0, by |-> w]
    THEN [f EXCEPT !.file.pid = f.proc[w], !.pc[w] = "running"]
    ELSE [f EXCEPT !.pc[w] = "running"]

FStep(f) ==
    /\ pf' = f
    /\ UNCHANGED <<wvars, tuq, psh, reg, outp, rn>>

FValidate(w) == pf.pc[w] = "idle" /\ FStep(validate_read(pf, w))

FDeleteStale(w) == pf.pc[w] = "stale" /\ FStep(unlink(pf, w, "spawn"))

FSpawn(w) ==
    /\ pf.pc[w] = "spawn" /\ pf.npid < MaxPids
    /\ FStep(spawn(pf, w))

FCreate(w) == pf.pc[w] = "create" /\ FStep(create(pf, w))

FWrite(w) == pf.pc[w] = "write" /\ FStep(write(pf, w))

\* The subprocess ends or abort() kills it.
FEnd(w) ==
    /\ pf.pc[w] = "running"
    /\ FStep([pf EXCEPT !.alive = @ \ {pf.proc[w]}, !.proc[w] = 0,
                        !.pc[w] = "unlink"])

FUnlink(w) == pf.pc[w] = "unlink" /\ FStep(unlink(pf, w, "idle"))

\* The worker is killed together with its subprocess: nothing is cleaned up.
FKilled(w) ==
    /\ pf.pc[w] = "running"
    /\ FStep([pf EXCEPT !.alive = @ \ {pf.proc[w]}, !.proc[w] = 0,
                        !.pc[w] = "idle", !.res[w] = "killed"])

PidNext ==
    \/ \E w \in Workers : FValidate(w)
    \/ \E w \in Workers : FDeleteStale(w)
    \/ \E w \in Workers : FSpawn(w)
    \/ \E w \in Workers : FCreate(w)
    \/ \E w \in Workers : FWrite(w)
    \/ \E w \in Workers : FEnd(w)
    \/ \E w \in Workers : FUnlink(w)
    \/ \E w \in Workers : FKilled(w)

\* ---- output_produced() on its own ----------------------------------------------
\* now is the reading of time.time() in seconds, tasks the do_post() tasks in
\* the order of their creation, each with the reading at its creation.
OutputInit ==
    [now |-> 2 * OUTPUT_PRODUCED_INTERVAL, _last_output_produced |-> 0,
     tasks |-> <<>>, op |-> "-"]

\* Variant: every call posts.
output_produced_unthrottled(o) ==
    [o EXCEPT !._last_output_produced = o.now,
              !.tasks = Append(@, [at |-> o.now, pc |-> "new"]),
              !.op = "posted"]

output_produced(o) ==
    IF o.now - o._last_output_produced < OUTPUT_PRODUCED_INTERVAL
    THEN [o EXCEPT !.op = "dropped"]
    ELSE [o EXCEPT !._last_output_produced = o.now,
                   !.tasks = Append(@, [at |-> o.now, pc |-> "new"]),
                   !.op = "posted"]

\* do_post(): whatever the Manager answers is logged only.
do_post(o, k, r) ==
    [o EXCEPT !.tasks[k].pc = r, !.op = "-"]

OStep(o) ==
    /\ outp' = o
    /\ UNCHANGED <<wvars, tuq, psh, reg, rn, pf>>

OClock ==
    \E d \in 1..MaxStep :
        /\ outp.now + d <= OutputInit.now + MaxElapsed
        /\ OStep([outp EXCEPT !.now = @ + d, !.op = "-"])

OOutputProduced == OStep(output_produced(outp))

ODoPost ==
    \E k \in 1..Len(outp.tasks) : \E r \in {"204", "rejected", "error"} :
        /\ outp.tasks[k].pc = "new"
        /\ OStep(do_post(outp, k, r))

OutputNext ==
    \/ OClock
    \/ OOutputProduced
    \/ ODoPost

Init ==
    /\ WorkerInit /\ tuq = TuqInit /\ psh = PushInit
    /\ reg = RegStart(DefaultConfig)
    /\ outp = OutputInit
    /\ rn = RunnerInit
    /\ pf = PidInit

\* startup() under every configuration and every answer of the Manager.
StartupInit ==
    /\ WorkerInit /\ tuq = TuqInit /\ psh = PushInit
    /\ reg \in {RegStart(c) : c \in Configs}
    /\ outp = OutputInit
    /\ rn = RunnerInit
    /\ pf = PidInit

StartupSpec == StartupInit /\ [][StartupNext]_vars

Spec == Init /\ [][Next]_vars

\* The push layer on its own, under arbitrary calls.
PushSpec == Init /\ [][PushNext]_vars

\* Two workers with one PID file, in every interleaving.
PidSpec == Init /\ [][PidNext]_vars

\* The runner under every list of commands.
RunnerSpec == Init /\ [][RunnerNext]_vars

\* output_produced() called at any rate.
OutputSpec == Init /\ [][OutputNext]_vars

\* The queue on its own, fed by arbitrary enqueue calls.
QueueSpec == Init /\ [][QueueNext]_vars

\* The consumer keeps running and the Manager answers every POST; failures
\* and restarts are finitely many.
QueueLive ==
    /\ QueueSpec
    /\ WF_vars(TuqPost)
    /\ WF_vars(TuqAnswered)

\* ==== properties ===============================================================
Executing(i) == iters[i].ex \in {"running", "cancelling"}

HasStatus(updates, st) == \E k \in 1..Len(updates) : updates[k].status = st

OnlyLog(u) == ~u.hasact /\ u.status = ""

\* Iteration i starts the runner / resumes after the runner in this step.
StartsRunner(i) == iters[i].ex = "none" /\ iters'[i].ex = "running"
EndsTask(i) == iters[i].pc = "exec" /\ IterDone(iters', i)

\* C1: at every moment at most one task is being executed by the Task Runner.
C1_AtMostOneTaskExecuting ==
    Cardinality({i \in Iters : Executing(i)}) <= 1

\* C2: at every moment at most one single_iteration future is pending (it
\* waits out its delay, checks, or fetches, and was not cancelled).
C2_AtMostOneFetchPending ==
    Cardinality({i \in Iters : iters[i].pc \in {"new", "sleep", "fetch"}
                               /\ ~iters[i].mc}) <= 1

\* C3: while the state is ASLEEP, ERROR or SHUTTING_DOWN no task is executing
\* (active_task_id is None).
C3_NoTaskUnlessAwake ==
    state \in {"asleep", "error", "shutting-down"} => active_task_id(W) = 0

\* C4: stop_current_task(T) changes nothing when no task is executing or the
\* executing task is not T: the step of the may-I-run poller that gets the
\* answer and forwards no status leaves the worker, the runner, the log
\* buffer and the delayed pushes as they are, enqueues nothing and POSTs
\* nothing.
C4_StopOtherTaskIsNoOp ==
    [][(/\ mir.pc = "ask" /\ mir'.pc # "ask" /\ shut' = shut
        /\ cnt'.env = cnt.env
        /\ ~(active_task_id(W) # 0 /\ task_id = mir.task))
       => /\ UNCHANGED <<state, iters, sif, aef, task_id, cts, act, silent,
                         acceptable, logq, pushAct, pushLog, sleepers, sfut,
                         loopStopped, stopped>>
          /\ enq' = <<>> /\ posts' = <<>>
          /\ mir'.pc = "idle"]_vars

\* C4 witness: stop_current_task was called for another task than the one
\* that is executing, and that task is still executing.
C4_Witness ==
    mir.last = "mismatch" /\ active_task_id(W) # 0 /\ ~silent

\* C5: once stop_current_task(T) has started to stop T, every update enqueued
\* for T contains only a log: no task_status and no activity field.
C5_OnlyLogsAfterStop ==
    [][\A k \in 1..Len(enq') :
          enq'[k].task \in stopped => OnlyLog(enq'[k])]_vars

StopLine(t) == [t |-> t, k |-> "stopped"]

InLog(line, updates) ==
    \E k \in 1..Len(updates) :
       \E n \in 1..Len(updates[k].log) : updates[k].log[n] = line

OtherPushStep ==
    \/ cnt'.env # cnt.env
    \/ pushAct = "pending" /\ pushAct' = "done"
    \/ pushLog = "pending" /\ pushLog' = "done"
    \/ mir' # mir
    \/ shut' # shut
    \/ \E i \in Iters : iters[i].ex = "running" /\ iters'[i].ex = "fail"

InQueue(n) == \E k \in 1..Len(tuq.q) : tuq.q[k] = n

TimesPosted(n) == Cardinality({k \in 1..Len(tuq.posted) : tuq.posted[k] = n})

\* C9 as stated, for "exactly once": no entry is POSTed more than once.
C9_PostedAtMostOnce ==
    \A n \in 1..MaxQueue : TimesPosted(n) <= 1

\* C9: under transport errors, 5xx answers and restarts the POSTs follow the
\* enqueue order (a POST is never for an older entry than the POST before
\* it), an entry leaves the queue only after it was POSTed, and when the
\* failures and restarts are finitely many every enqueued entry is POSTed
\* at least once and leaves the queue.
C9_PostedInOrderAtLeastOnce ==
    /\ [](\A k \in 1..Len(tuq.posted) :
             \A m \in 1..Len(tuq.posted) :
                k < m => tuq.posted[k] <= tuq.posted[m])
    /\ [](\A n \in 1..MaxQueue :
             (n < tuq.next /\ ~InQueue(n)) => TimesPosted(n) >= 1)
    /\ \A n \in 1..MaxQueue :
          InQueue(n) ~> (TimesPosted(n) >= 1 /\ ~InQueue(n))

\* C9 witness: an entry was POSTed again after a failure or a restart and the
\* entry behind it was POSTed after it.
C9_Witness ==
    /\ TimesPosted(1) >= 2 /\ TimesPosted(2) >= 1 /\ tuq.fails >= 1

\* C10 as stated: an entry leaves the queue only after a 2xx.
C10_RemovedOnlyAfter2xx ==
    [][Len(tuq'.q) < Len(tuq.q) => tuq'.ans = "2xx"]_vars

\* C10: an entry leaves the queue only when the Manager answered its POST with
\* a 2xx or a 4xx status, and it is the oldest entry; after a transport
\* error, a 5xx answer or a restart every entry is still in the queue.
C10_RemovedOnlyAfterAnswer ==
    [][/\ Len(tuq'.q) < Len(tuq.q) =>
             /\ tuq.fly = Head(tuq.q) /\ tuq'.q = Tail(tuq.q)
             /\ tuq'.ans \in {"2xx", "4xx"}
       /\ tuq'.fails # tuq.fails =>
             /\ tuq'.ans \in {"transport", "5xx", "restart"}
             /\ tuq'.q = tuq.q]_vars

\* C10 witness: a POST failed and its entry is still the oldest of the queue.
C10_Witness ==
    /\ tuq.ans \in {"transport", "5xx"} /\ tuq.fly = 0
    /\ tuq.q # <<>> /\ tuq.posted # <<>>
    /\ Head(tuq.q) = tuq.posted[Len(tuq.posted)]

\* ---- the push layer ------------------------------------------------------------
RECURSIVE FlatLogs(_, _)
\* The log lines of the first k enqueued updates, in order.
FlatLogs(h, k) == IF k = 0 THEN <<>> ELSE FlatLogs(h, k - 1) \o h[k].u.log

InSeq(x, sq) == \E n \in 1..Len(sq) : sq[n] = x

\* C11: every update that carries a task_status contains, together with the
\* updates enqueued before it, every log line that was registered before it
\* was enqueued (the traceback of an uncaught exception included).
C11_StatusNotAheadOfLogs ==
    \A k \in 1..Len(psh.hist) :
       psh.hist[k].u.status # "" =>
          \A n \in 1..psh.hist[k].n : InSeq(psh.reg[n], FlatLogs(psh.hist, k))

\* C11 witness: the update with 'failed' after an uncaught exception was
\* enqueued with the traceback, and with a line registered earlier.
C11_Witness ==
    /\ psh.op = "end" /\ psh.arg = "exc" /\ psh.hist # <<>>
    /\ LET u == psh.hist[Len(psh.hist)].u
       IN /\ u.status = "failed" /\ Len(u.log) = 2
          /\ u.log[2].k = "traceback"

\* C12: the log lines of the enqueued updates, in the order of the updates,
\* followed by the log buffer are the registered lines in their order: every
\* line is in one update only, none is lost, the order is kept; and a push
\* with an empty buffer enqueues no 'log' field.
C12_LogsPushedOnceInOrder ==
    /\ [](FlatLogs(psh.hist, Len(psh.hist)) \o logq = psh.reg)
    /\ [][(logq = <<>> /\ psh'.reg = psh.reg) =>
            \A k \in 1..Len(enq') : enq'[k].log = <<>>]_vars

\* C12 witness: three lines went out in two updates and an update without a
\* 'log' field was enqueued as well.
C12_Witness ==
    /\ Len(psh.reg) = 3 /\ logq = <<>>
    /\ \E i, j, k \in 1..Len(psh.hist) :
          /\ i # j /\ psh.hist[i].u.log # <<>> /\ psh.hist[j].u.log # <<>>
          /\ psh.hist[k].u.log = <<>>

C15_LogPushedAtThresholdOrInterval ==
    [][psh'.op = "log" =>
          LET buf == Append(logq, [t |-> task_id, k |-> psh'.arg])
          IN IF Len(buf) > push_log_max_entries \/ psh'.due
             THEN /\ Len(enq') = 1 /\ enq'[1].log = buf /\ logq' = <<>>
                  /\ pushLog' # "pending"
             ELSE /\ enq' = <<>> /\ logq' = buf
                  /\ IF pushLog \in {"none", "done"}
                     THEN pushLog' = "pending"
                     ELSE pushLog' = pushLog]_vars

\* C15 witness: the line that crossed the threshold was enqueued together
\* with the lines before it in the only update, and the delayed log push is
\* cancelled.
C15_Witness ==
    /\ psh.op = "log" /\ ~psh.due /\ Len(psh.hist) = 1
    /\ Len(psh.hist[1].u.log) = push_log_max_entries + 1
    /\ pushLog = "cancelling" /\ logq = <<>>

\* The step scheduled exactly one fetch iteration, to start after delay, and
\* touched no iteration but that one and iteration i.
ScheduledOne(i, delay) ==
    /\ cnt'.iter = cnt.iter + 1 /\ sif' = cnt'.iter
    /\ iters'[sif'] = [NoIter EXCEPT !.pc = "new", !.delay = delay]
    /\ \A k \in Iters \ {i, sif'} : iters'[k] = iters[k]

\* What schedule_fetch_task(delay) does at the end of iteration i: exactly one
\* fetch iteration is scheduled, or none once the shutdown has begun.
Rescheduled(i, delay) ==
    IF shut = "off" THEN ScheduledOne(i, delay)
    ELSE cnt'.iter = cnt.iter /\ sif' = sif

\* The step left the task, its execution and the state of the worker alone
\* and enqueued nothing.
NoTaskTouched ==
    /\ UNCHANGED <<task_id, cts, act, aef, state, sleepers, sfut, logq>>
    /\ cnt'.task = cnt.task /\ enq' = <<>>

\* C16: when an iteration finds queue_size() above QUEUE_SIZE_THRESHOLD it
\* does not run the pre-task check (the worker does not change state), posts
\* nothing, starts no task, ends, and exactly one new iteration is scheduled
\* after FETCH_TASK_FAILED_RETRY_DELAY; at or below the threshold, with a
\* passing check, it goes on to POST /task.
C16_QueueAboveThresholdPostpones ==
    [][inp'.op = "wake" =>
          IF inp'.qs > QUEUE_SIZE_THRESHOLD
          THEN /\ posts' = <<>> /\ NoTaskTouched
               /\ iters'[inp'.i].pc = "done"
               /\ ScheduledOne(inp'.i, FETCH_TASK_FAILED_RETRY_DELAY)
          ELSE inp'.ok =>
                  /\ Len(posts') = 1 /\ posts'[1].u = "task"
                  /\ iters'[inp'.i].pc = "fetch"]_vars

\* C16: as above, but once the shutdown has begun no new iteration is
\* scheduled.
C16_QueueAboveThresholdPostponesUnlessShutdown ==
    [][inp'.op = "wake" =>
          IF inp'.qs > QUEUE_SIZE_THRESHOLD
          THEN /\ posts' = <<>> /\ NoTaskTouched
               /\ iters'[inp'.i].pc = "done"
               /\ Rescheduled(inp'.i, FETCH_TASK_FAILED_RETRY_DELAY)
          ELSE inp'.ok =>
                  /\ Len(posts') = 1 /\ posts'[1].u = "task"
                  /\ iters'[inp'.i].pc = "fetch"]_vars

\* C16 witness: the first iteration found the queue above the threshold and
\* the second one is scheduled after FETCH_TASK_FAILED_RETRY_DELAY.
C16_Witness ==
    /\ inp.op = "wake" /\ inp.i = 1 /\ inp.qs > QUEUE_SIZE_THRESHOLD
    /\ iters[1].pc = "done" /\ sif = 2 /\ shut = "off" /\ posts = <<>>
    /\ iters[2] = [NoIter EXCEPT !.pc = "new",
                                 !.delay = FETCH_TASK_FAILED_RETRY_DELAY]

\* The pre-task check of this step failed.
CheckFailed == inp'.op = "wake" /\ inp'.qs <= QUEUE_SIZE_THRESHOLD /\ ~inp'.ok

\* sleeping_for_error() number j finished its sleep in this step.
ErrorTimerFired(j) ==
    /\ sleepers[j] = [kind |-> "error", st |-> "pending"]
    /\ sleepers'[j].st = "done"

\* What a failed pre-task check does: no POST /task and no task, state ERROR,
\* the state acknowledged, an error timer pending, the iteration over and no
\* fetch iteration scheduled.
CheckFailureHandled ==
    CheckFailed =>
       /\ posts' = <<[u |-> "ack-status-change", t |-> 0, s |-> "error"]>>
       /\ UNCHANGED <<task_id, cts, act, aef, logq>>
       /\ cnt'.task = cnt.task /\ enq' = <<>>
       /\ state' = "error"
       /\ sfut' = cnt'.sleep /\ cnt'.sleep = cnt.sleep + 1
       /\ sleepers'[sfut'] = [kind |-> "error", st |-> "pending"]
       /\ iters'[inp'.i].pc = "done"
       /\ cnt'.iter = cnt.iter /\ sif' = sif

C18_NoTaskAvailableOnlyReschedules ==
    [][inp'.op = "resp" /\ inp'.resp = "204" =>
          /\ NoTaskTouched /\ posts' = <<>>
          /\ iters'[inp'.i] = [iters[inp'.i] EXCEPT !.pc = "done"]
          /\ ScheduledOne(inp'.i, FETCH_TASK_EMPTY_RETRY_DELAY)]_vars

\* C18: as above, but once the shutdown has begun no new iteration is
\* scheduled.
C18_NoTaskAvailableReschedulesUnlessShutdown ==
    [][inp'.op = "resp" /\ inp'.resp = "204" =>
          /\ NoTaskTouched /\ posts' = <<>>
          /\ iters'[inp'.i] = [iters[inp'.i] EXCEPT !.pc = "done"]
          /\ Rescheduled(inp'.i, FETCH_TASK_EMPTY_RETRY_DELAY)]_vars

\* C18 witness: POST /task of the first iteration was answered 204 and the
\* second one is scheduled after FETCH_TASK_EMPTY_RETRY_DELAY.
C18_Witness ==
    /\ inp.op = "resp" /\ inp.resp = "204" /\ inp.i = 1
    /\ iters[1].pc = "done" /\ sif = 2 /\ shut = "off" /\ task_id = 0
    /\ iters[2] = [NoIter EXCEPT !.pc = "new",
                                 !.delay = FETCH_TASK_EMPTY_RETRY_DELAY]

\* Fetch iteration k is pending: it waits for its start, its delay or the
\* answer to POST /task and was not cancelled.
FetchPending(its, k) == its[k].pc \in {"new", "sleep", "fetch"} /\ ~its[k].mc

\* The state change that status_requested sr stands for was applied.
StatusApplied(sr) ==
    CASE sr = "awake" -> state' = "awake"
      [] sr = "shutdown" -> state' = "shutting-down" /\ loopStopped'
      [] sr = "error" ->
           /\ state' = "error"
           /\ sleepers'[sfut'] = [kind |-> "error", st |-> "pending"]
      [] OTHER ->
           /\ state' = "asleep"
           /\ posts' = <<[u |-> "ack-status-change", t |-> 0, s |-> "asleep"]>>
           /\ sfut' = cnt'.sleep /\ cnt'.sleep = cnt.sleep + 1
           /\ sleepers'[sfut'] = [kind |-> "poll", st |-> "pending"]

\* C19: a 423 answer to POST /task applies status_requested (an unrecognised
\* one as 'asleep'), starts no task, enqueues nothing and ends the iteration;
\* unless 'awake' was requested no fetch iteration is scheduled; and when the
\* worker goes to sleep a sleep poll runs and no fetch iteration is pending.
C19_LockedAppliesStatusOnly ==
    [][inp'.op = "resp" /\ inp'.resp = "423" =>
          /\ StatusApplied(inp'.sr)
          /\ UNCHANGED <<task_id, cts, act, aef>>
          /\ cnt'.task = cnt.task /\ enq' = <<>>
          /\ iters'[inp'.i].pc = "done"
          /\ inp'.sr # "awake" => cnt'.iter = cnt.iter
          /\ state' = "asleep" =>
                \A k \in Iters : ~FetchPending(iters', k)]_vars

\* The worker was constructed with both worker_id and worker_secret.
IdentityKnown == reg.cfg.id # "" /\ reg.cfg.secret # ""

Requests == 1..Len(reg.hist)

\* With an incomplete identity startup() registers: every request is
\* /register-worker without authentication and with a generated secret, and
\* when startup() is over the returned _id and that secret are the
\* identity, manager.auth and what was written to the home configuration.
RegistersOnly ==
    /\ \A k \in Requests :
          /\ reg.hist[k].u = "register-worker" /\ reg.hist[k].auth = NoAuth
          /\ reg.hist[k].secret = GeneratedSecrets[1]
    /\ reg.pc = "done" =>
          /\ reg.id = AssignedId /\ reg.secret = GeneratedSecrets[1]
          /\ reg.secret # reg.cfg.secret
          /\ reg.auth = <<reg.id, reg.secret>>
          /\ reg.home = <<reg.id, reg.secret>>

\* C20 as stated: startup() enqueues no update; with a complete identity all
\* its requests are /sign-on, with an incomplete one it registers only.
C20_OnlySignOnOrOnlyRegister ==
    /\ enq = <<>> /\ tuq = TuqInit
    /\ IF IdentityKnown
       THEN \A k \in Requests : reg.hist[k].u = "sign-on"
       ELSE RegistersOnly

\* C20: startup() enqueues no update; with a complete identity its first
\* request is /sign-on with that identity, and /register-worker is posted
\* only after a /sign-on answered 401 (or as the retry of a
\* /register-worker); with an incomplete identity it registers only.
C20_StartupChoosesByIdentity ==
    /\ enq = <<>> /\ tuq = TuqInit
    /\ IF IdentityKnown
       THEN \A k \in Requests :
               IF k = 1
               THEN /\ reg.hist[k].u = "sign-on"
                    /\ reg.hist[k].auth = <<reg.cfg.id, reg.cfg.secret>>
               ELSE reg.hist[k].u = "register-worker" =>
                       \/ reg.hist[k - 1].u = "register-worker"
                       \/ reg.hist[k - 1].r = "401"
       ELSE RegistersOnly

\* C20 witness: a worker with a stored secret but no worker_id has registered
\* with one request and startup() is over.
C20_Witness ==
    /\ reg.cfg.id = "" /\ reg.cfg.secret # "" /\ reg.pc = "done"
    /\ Len(reg.hist) = 1 /\ reg.hist[1].u = "register-worker"
    /\ reg.hist[1].r = "ok" /\ reg.auth = <<AssignedId, GeneratedSecrets[1]>>
    /\ sif = 1

\* Request k is the first POST of a call of signon() or register_at_manager():
\* not the retry of the same request after a failure.
FirstPost(k) == k = 1 \/ reg.hist[k - 1].u # reg.hist[k].u

Calls(url) == {k \in Requests : reg.hist[k].u = url /\ FirstPost(k)}

\* C21: for a worker that starts with an identity, a first /sign-on answered
\* 401 is followed by /register-worker with a newly generated secret; when
\* that succeeds the new id and secret are stored, written to the home
\* configuration and used for the next request, which is /sign-on; a 401 on
\* that one ends startup with UnableToRegisterError.  register_at_manager()
\* is called at most once and signon() at most twice.
C21_ReRegistersOnceOn401 ==
    IdentityKnown =>
       /\ \A k \in Requests :
             /\ reg.hist[k].u = "sign-on" /\ reg.hist[k].r = "401" =>
                   IF Calls("register-worker") \cap 1..k = {}
                   THEN /\ k < Len(reg.hist)
                        /\ reg.hist[k + 1].u = "register-worker"
                        /\ reg.hist[k + 1].secret = GeneratedSecrets[1]
                        /\ reg.hist[k + 1].secret # reg.cfg.secret
                   ELSE /\ k = Len(reg.hist) /\ reg.pc = "failed"
                        /\ reg.err = "UnableToRegisterError"
             /\ reg.hist[k].u = "register-worker" /\ reg.hist[k].r = "ok" =>
                   /\ reg.home = <<AssignedId, reg.hist[k].secret>>
                   /\ reg.id = AssignedId /\ reg.secret = reg.hist[k].secret
                   /\ k < Len(reg.hist)
                   /\ reg.hist[k + 1].u = "sign-on"
                   /\ reg.hist[k + 1].auth = reg.home
       /\ Cardinality(Calls("register-worker")) <= 1
       /\ Cardinality(Calls("sign-on")) <= 2

\* C21 witness: sign-on refused with 401, registration accepted, second
\* sign-on refused with 401 as well: startup has failed.
C21_Witness ==
    /\ IdentityKnown /\ Len(reg.hist) = 3 /\ reg.pc = "failed"
    /\ reg.hist[1].r = "401" /\ reg.hist[2].r = "ok" /\ reg.hist[3].r = "401"
    /\ reg.hist[3].auth = <<AssignedId, GeneratedSecrets[1]>>

\* Request k + 1 is request k sent again after the retry delay.
Repeated(k) ==
    /\ k < Len(reg.hist)
    /\ reg.hist[k + 1] = [reg.hist[k] EXCEPT
                             !.r = reg.hist[k + 1].r,
                             !.after = REGISTER_AT_MANAGER_FAILED_RETRY_DELAY]

\* Request k was the last one and startup has failed.
Fatal(k) == k = Len(reg.hist) /\ reg.pc = "failed"

\* C22: with may_retry_loop, a request to /register-worker or /sign-on that
\* gets no answer or a 5xx answer is sent again after
\* REGISTER_AT_MANAGER_FAILED_RETRY_DELAY; one answered 403 is not sent again
\* and startup fails; one answered with another 4xx (other than 401) is not
\* sent again either and startup fails.
C22_RetryTransientOnly ==
    reg.cfg.retry =>
       \A k \in Requests :
          /\ reg.hist[k].r \in {"500", "no answer"} => Repeated(k)
          /\ reg.hist[k].r = "403" => Fatal(k)
          /\ reg.hist[k].r = "404" => Fatal(k)

\* Request k is a /register-worker POST that the Manager accepted.
Registered(k) == reg.hist[k].u = "register-worker" /\ reg.hist[k].r = "ok"

\* What holds of the written identity whatever the failure raises: it is
\* written exactly when a registration was accepted, with the returned id and
\* the secret of that request; a registration that ended startup wrote
\* nothing and left no fetch iteration; a startup that returned has both
\* worker_id and worker_secret and its first fetch iteration.
IdentityWritten ==
    /\ reg.home # <<>> <=> \E k \in Requests : Registered(k)
    /\ \A k \in Requests :
          /\ Registered(k) =>
                /\ reg.home = <<AssignedId, reg.hist[k].secret>>
                /\ reg.id = AssignedId /\ reg.secret = reg.hist[k].secret
          /\ reg.hist[k].u = "register-worker" /\ Fatal(k) =>
                reg.home = <<>> /\ cnt.iter = 0 /\ sif = 0
    /\ reg.pc = "done" => reg.id # "" /\ reg.secret # "" /\ sif = 1

\* C23 as stated: the above, and every registration that ends startup makes
\* it raise UnableToRegisterError.
C23_FailedRegistrationUnableToRegister ==
    /\ IdentityWritten
    /\ \A k \in Requests :
          reg.hist[k].u = "register-worker" /\ Fatal(k) =>
             reg.err = "UnableToRegisterError"

\* C23: the above, and a registration that ends startup makes it raise
\* UnableToRegisterError when the Manager answered with an error status, and
\* the transport exception itself when there was no answer.
C23_IdentityWrittenOnSuccess ==
    /\ IdentityWritten
    /\ \A k \in Requests :
          reg.hist[k].u = "register-worker" /\ Fatal(k) =>
             reg.err = IF reg.hist[k].r = "no answer" THEN "RequestException"
                       ELSE "UnableToRegisterError"

\* C23 witness: the Manager refused the registration with 403; nothing was
\* written and startup raised UnableToRegisterError.
C23_Witness ==
    /\ ~IdentityKnown /\ Len(reg.hist) = 1 /\ reg.hist[1].r = "403"
    /\ reg.pc = "failed" /\ reg.err = "UnableToRegisterError"
    /\ reg.home = <<>> /\ sif = 0

\* The step POSTed /ack-status-change/st.
Acked(st) ==
    \E k \in 1..Len(posts') :
       posts'[k] = [u |-> "ack-status-change", t |-> 0, s |-> st]

NoAck == \A k \in 1..Len(posts') : posts'[k].u # "ack-status-change"

\* A single_iteration began to run in this step.
IterationBegan == \E i \in Iters : iters[i].pc = "new" /\ iters'[i].pc = "sleep"

C25_ShuttingDownIsTerminal ==
    [][state = "shutting-down" =>
          /\ state' = "shutting-down"
          /\ cnt'.iter = cnt.iter /\ ~IterationBegan
          /\ cnt'.sleep = cnt.sleep
          /\ cnt'.task = cnt.task]_vars

\* The positions of do_clean_shutdown() and shutdown(), in the order of their
\* statements.
ShutdownOrder ==
    <<"off", "wait-mir", "wait-fetch", "abort", "flush", "sign-off", "finished">>

Position(p) == CHOOSE k \in 1..Len(ShutdownOrder) : ShutdownOrder[k] = p

SignOffPosted == \E k \in 1..Len(posts') : posts'[k].u = "sign-off"

\* C26: the shutdown goes through its positions one by one; shutdown() first cancels
\* the fetch iteration, then the sleep poll; then, if a delayed push was
\* scheduled, it pushes what is buffered; /sign-off is POSTed only in the step
\* after flush_and_report, alone; whatever the answer to /sign-off,
\* shutdown() finishes; and no fetch iteration is scheduled once the shutdown
\* has begun.
C26_ShutdownInOrder ==
    [][/\ shut' # shut => Position(shut') = Position(shut) + 1
       /\ shut = "wait-mir" /\ shut' # shut =>
             sif = 0 \/ ~FetchPending(iters', sif)
       /\ shut = "wait-fetch" /\ shut' = "abort" =>
             /\ sif = 0 \/ IterDone(iters, sif)
             /\ sfut = 0 \/ sleepers'[sfut].st # "pending"
       /\ /\ shut = "abort" /\ shut' = "flush"
          /\ pushAct = "pending" \/ pushLog = "pending"
          => /\ logq' = <<>>
             /\ pushAct' # "pending" /\ pushLog' # "pending"
       /\ SignOffPosted =>
             /\ shut = "flush" /\ shut' = "sign-off"
             /\ posts' = <<[u |-> "sign-off", t |-> 0, s |-> ""]>>
       /\ shut = "sign-off" /\ inp'.op = "sign-off" => shut' = "finished"
       /\ shut # "off" => cnt'.iter = cnt.iter]_vars

\* C26 witness: the POST /sign-off failed and shutdown() has finished.
C26_Witness ==
    /\ shut = "finished" /\ inp.op = "sign-off" /\ inp.resp = "error"
    /\ IterDone(iters, sif) /\ state = "shutting-down"

\* C27: a may-I-run iteration asks only while a task is executing, and for
\* that task; an answer that is an error or may_keep_running true changes
\* nothing of the worker; may_keep_running false first applies
\* status_requested, when present, and then stops the task if and only if a
\* task is executing and it is the task that was asked about: otherwise, as
\* when another task has started meanwhile, nothing is stopped.
C27_MayIRunStopsPolledTask ==
    [][/\ mir.pc = "idle" /\ mir'.pc = "ask" =>
             /\ aef # 0 /\ ~ExecDone(iters, aef) /\ task_id # 0
             /\ mir'.task = task_id
       /\ inp'.op = "may-i-run" =>
             IF inp'.resp \in {"error", "keep"}
             THEN /\ UNCHANGED <<state, iters, sif, aef, task_id, cts, act,
                                 silent, logq, sleepers, sfut, stopped, shut,
                                 loopStopped, pushAct, pushLog>>
                  /\ enq' = <<>> /\ posts' = <<>> /\ mir'.pc = "idle"
             ELSE /\ inp'.sr # "" => StatusApplied(inp'.sr)
                  /\ inp'.sr = "" => state' = state /\ posts' = <<>>
                  /\ IF aef # 0 /\ ~ExecDone(iters, aef)
                        /\ task_id = mir.task
                     THEN /\ silent' /\ mir.task \in stopped'
                          /\ mir'.pc = "abort" /\ mir'.task = mir.task
                     ELSE /\ silent' = silent /\ stopped' = stopped
                          /\ mir'.pc = "idle"]_vars

\* C27 witness: the Manager answered may_keep_running false with
\* status_requested 'asleep' for the executing task: the worker is asleep and
\* the stop of that task has begun.
C27_Witness ==
    /\ inp.op = "may-i-run" /\ inp.resp = "stop" /\ inp.sr = "asleep"
    /\ state = "asleep" /\ silent /\ mir.pc = "abort" /\ mir.task = task_id
    /\ task_id \in stopped

\* execute_task() of iteration i returned in this step.
TaskFinished(i) == iters[i].pc = "exec" /\ iters'[i].pc = "done"

\* In single-task mode the end of a task, whatever its outcome, sets
\* SHUTTING_DOWN, stops the loop and schedules nothing, and nothing is
\* scheduled afterwards.
SingleTaskShutsDown ==
    /\ \A i \in Iters :
          TaskFinished(i) /\ run_single_task =>
             /\ state' = "shutting-down" /\ loopStopped'
             /\ cnt'.iter = cnt.iter
    /\ run_single_task /\ loopStopped => cnt'.iter = cnt.iter

CancelledEnded(i) ==
    /\ iters[i].mc /\ iters[i].pc \in {"new", "sleep", "fetch"}
    /\ iters'[i].pc = "done"

\* C29 as stated: when an iteration ends with an exception that is not a
\* cancellation, exactly one iteration is scheduled after
\* UNCAUGHT_EXCEPTION_RETRY_DELAY and the state and the loop stay as they
\* are; the end of a cancelled iteration schedules nothing.
C29_RaisedIterationReplaced ==
    [][/\ inp'.op = "raise" =>
             /\ iters'[inp'.i].pc = "done"
             /\ ScheduledOne(inp'.i, UNCAUGHT_EXCEPTION_RETRY_DELAY)
             /\ UNCHANGED <<state, loopStopped, shut>>
       /\ \A i \in Iters : CancelledEnded(i) => cnt'.iter = cnt.iter]_vars

\* C29: as above, but once the shutdown has begun an iteration that raised
\* is not replaced.
C29_RaisedIterationReplacedUnlessShutdown ==
    [][/\ inp'.op = "raise" =>
             /\ iters'[inp'.i].pc = "done"
             /\ IF shut = "off"
                THEN ScheduledOne(inp'.i, UNCAUGHT_EXCEPTION_RETRY_DELAY)
                ELSE cnt'.iter = cnt.iter
             /\ UNCHANGED <<state, loopStopped, shut>>
       /\ \A i \in Iters : CancelledEnded(i) => cnt'.iter = cnt.iter]_vars

\* C29 witness: the first iteration raised while it fetched and the second
\* one is scheduled with the delay for uncaught exceptions.
C29_Witness ==
    /\ inp.op = "raise" /\ inp.i = 1 /\ iters[1].pc = "done" /\ sif = 2
    /\ iters[2] = [NoIter EXCEPT !.pc = "new",
                                 !.delay = UNCAUGHT_EXCEPTION_RETRY_DELAY]
    /\ state = "awake" /\ shut = "off" /\ ~loopStopped

\* C30: two POSTs to /output-produced are never less than
\* OUTPUT_PRODUCED_INTERVAL apart, whatever the rate of the calls; a call
\* less than that after the last call that posted is dropped: it issues no
\* POST and leaves the start of the window where it was.
C30_OnePostPerWindow ==
    [][/\ \A k \in 1..Len(outp'.tasks) : \A j \in 1..(k - 1) :
             outp'.tasks[k].at - outp'.tasks[j].at >= OUTPUT_PRODUCED_INTERVAL
       /\ outp'.op \in {"dropped", "posted"} =>
             IF /\ outp.tasks # <<>>
                /\ outp.now - outp.tasks[Len(outp.tasks)].at
                       < OUTPUT_PRODUCED_INTERVAL
             THEN /\ outp'.op = "dropped"
                  /\ outp'.tasks = outp.tasks
                  /\ outp'._last_output_produced = outp._last_output_produced
             ELSE /\ outp'.op = "posted"
                  /\ outp'.tasks = Append(outp.tasks,
                                         [at |-> outp.now, pc |-> "new"])
                  /\ outp'._last_output_produced = outp.now]_vars

\* C30 witness: a call made 29 s after the first POST was dropped and left
\* the start of the window at the first POST.
C30_Witness ==
    /\ Len(outp.tasks) = 1 /\ outp.op = "dropped"
    /\ outp.now - outp.tasks[1].at = OUTPUT_PRODUCED_INTERVAL - 1
    /\ outp._last_output_produced = outp.tasks[1].at

\* C31: the commands of a task are constructed and run in the order of the
\* list, one in a step; execute() returns True only when every command of
\* the task returned True; it returns False at the first command that
\* returned False, and no later command of the task is constructed or run.
C31_CommandsInOrderUntilFailure ==
    [][/\ rn'.n = rn.n /\ rn'.built # rn.built =>
             /\ rn'.built = rn.built + 1 /\ rn'.idx = rn'.built
             /\ rn.res = "running"
       /\ rn'.res = "true" =>
             /\ Len(rn'.rets) = Len(rn'.task)
             /\ \A k \in 1..Len(rn'.rets) : rn'.rets[k]
       /\ rn'.res = "false" =>
             /\ rn'.rets # <<>> /\ ~rn'.rets[Len(rn'.rets)]
             /\ \A k \in 1..(Len(rn'.rets) - 1) : rn'.rets[k]
             /\ rn'.built = Len(rn'.rets)
       /\ rn.res = "false" /\ rn'.n = rn.n =>
             rn'.built = rn.built]_vars

\* C31 witness: the first of two commands returned False, execute() returned
\* False and the second command was not constructed.
C31_Witness ==
    /\ rn.res = "false" /\ Len(rn.task) = 2 /\ rn.task[2] = "ok"
    /\ rn.built = 1 /\ rn.rets = <<FALSE>>

\* The key-wise sum of the timings in seq.
RECURSIVE KeySum(_, _)
KeySum(seq, name) ==
    IF seq = <<>> THEN 0
    ELSE Duration(Head(seq), name) + KeySum(Tail(seq), name)

Names(seq) == UNION {DOMAIN seq[k] : k \in 1..Len(seq)}

\* C32: when execute() has returned True or False, the aggregate timing of
\* the runner is the key-wise sum of what the commands run in this task
\* recorded, the failing one included, and holds nothing of an earlier task;
\* Timing.__add__ sums the durations of shared names and leaves both
\* operands as they were.
C32_AggregateIsSumOfOwnTimings ==
    /\ rn.res \in {"true", "false"} =>
          /\ DOMAIN rn.aggr = Names(rn.own)
          /\ \A name \in DOMAIN rn.aggr : rn.aggr[name] = KeySum(rn.own, name)
    /\ \A a \in Recordings \cup {NoTiming}, b \in Recordings \cup {NoTiming} :
          /\ Timing_add(a, b).self = a /\ Timing_add(a, b).other = b
          /\ DOMAIN Timing_add(a, b).result = DOMAIN a \cup DOMAIN b
          /\ \A name \in DOMAIN a \cup DOMAIN b :
                Timing_add(a, b).result[name] = KeySum(<<a, b>>, name)

\* The command of worker w keeps a subprocess: it got past the exclusive
\* create and its subprocess runs.
Keeps(w) == pf.pc[w] \in {"write", "running"} /\ pf.proc[w] \in pf.alive

\* C33: two workers that share a PID file never both keep a subprocess
\* running, in any interleaving of their steps; a command whose exclusive
\* create fails kills the subprocess it spawned, raises and leaves the
\* existing PID file in place.
C33_OneSubprocessPerPidFile ==
    [][/\ ~(Keeps(1) /\ Keeps(2))
       /\ \A w \in Workers :
             pf.pc[w] = "create" /\ pf'.pc[w] # "create" /\ pf.file # NoFile =>
                /\ pf'.file = pf.file /\ pf'.res[w] = "exists"
                /\ pf.proc[w] \notin pf'.alive /\ pf'.pc[w] = "idle"]_vars

\* ---- per-task data ---------------------------------------------------------------
\* Iteration i stores the task that POST /task handed out.
FetchesTask(i) == iters[i].task = 0 /\ iters'[i].task # 0

\* C40: the first update of a fetched task is enqueued in the step that
\* stores the task and starts its runner: it is for that task, has the
\* task_status 'active' and the default (empty) activity, whatever the task
\* before it left behind (no other task is being executed, and
\* stop_current_task() did not interfere).
C40_FirstUpdateActiveAndFresh ==
    [][\A i \in Iters :
          (/\ FetchesTask(i) /\ ~silent
           /\ \A j \in Iters \ {i} : iters[j].pc # "exec") =>
          /\ StartsRunner(i)
          /\ enq' # <<>>
          /\ enq'[1].task = iters'[i].task
          /\ enq'[1].status = "active" /\ enq'[1].act = ""]_vars

\* ---- the fetch iteration and the worker state ------------------------------------
\* Iteration i runs its first step / issues POST /task in this step.
BeginsToRun(i) == iters[i].pc = "new" /\ iters'[i].pc # "new"
PostsTask(i) == iters[i].pc = "sleep" /\ iters'[i].pc = "fetch"

\* C34: a fetch iteration that begins to run while the state is ASLEEP, ERROR
\* or SHUTTING_DOWN ends without changing the state, and POST /task is only
\* issued while the state is AWAKE.
C34_IterationOnlyWhenAwake ==
    [][\A i \in Iters :
          /\ (/\ BeginsToRun(i)
              /\ state \in {"asleep", "error", "shutting-down"}) =>
                state' = state /\ IterDone(iters', i)
          /\ PostsTask(i) => state = "awake"]_vars

\* ---- the sleep poll and the error timer ------------------------------------------
\* The status-change poll loops that run, and whether a fetch iteration is
\* pending (created, not finished, not executing a task, not cancelled).
PollLoops ==
    Cardinality({j \in Sleepers : /\ sleepers[j].kind = "poll"
                                  /\ sleepers[j].st = "pending"})

AFetchIsPending == \E i \in Iters : FetchPending(iters, i)

\* go_to_state_awake() ran in this step.
WakesUp ==
    /\ state' = "awake"
    /\ \E k \in 1..Len(posts') :
          posts'[k] = [u |-> "ack-status-change", t |-> 0, s |-> "awake"]

\* C35: whenever the state is ASLEEP no fetch iteration is pending and
\* exactly one status-change poll loop runs; after a wake-up no poll loop
\* runs and a fetch iteration is pending.
C35_SleepPollFollowsState ==
    /\ [](state = "asleep" => (~AFetchIsPending /\ PollLoops = 1))
    /\ [][WakesUp => (PollLoops' = 0 /\ AFetchIsPending')]_vars

\* C36: the error-recover timer moves the worker to AWAKE only when the
\* worker is still in ERROR as it fires; in every other state it changes
\* nothing, so it never wakes an ASLEEP worker.
C36_ErrorTimerOnlyInError ==
    [][\A j \in Sleepers : (ErrorTimerFired(j) /\ state # "error") =>
          /\ state' = state
          /\ \A i \in Iters : iters'[i] = iters[i]]_vars

\* ---- the task an update is enqueued for ------------------------------------------
\* C37: every log line of an enqueued update was registered while the task of
\* the update's URL was the current task.
C37_UpdateGoesToOwnTask ==
    \A k \in 1..Len(enq) : \A n \in 1..Len(enq[k].log) :
       enq[k].log[n].t = enq[k].task

\* ---- the delayed log push --------------------------------------------------------
\* C38: whenever register_log returns with a log buffer that is not empty, a
\* delayed log push is pending that was not cancelled, so that the buffer is
\* pushed even when no other event follows.
C38_BufferedLogHasPendingPush ==
    [][(psh'.op = "log" /\ logq' # <<>>) => pushLog' = "pending"]_vars

\* ---- never stuck awake -----------------------------------------------------------
\* C39: while the state is AWAKE, the shutdown has not begun and the loop was
\* not stopped, a task is being executed or a fetch iteration is pending.
C39_NeverStuckAwake ==
    (state = "awake" /\ shut = "off" /\ ~loopStopped) =>
       \/ \E i \in Iters : iters[i].pc = "exec"
       \/ AFetchIsPending

\* C39 witness: the runner raised or returned false, execute_task() is over
\* and the worker is awake with the next fetch iteration waiting.
C39_Witness ==
    /\ state = "awake" /\ shut = "off" /\ ~loopStopped
    /\ iters[1].pc = "done" /\ iters[1].ex \in {"fail", "exc"}
    /\ iters[2].pc = "new" /\ ~iters[2].mc
    /\ \A i \in Iters : iters[i].pc # "exec"

====
